---- MODULE Spec2Model ----
(***************************************************************************)
(* Model of the ECS runtime (entity registry, component stores, World,     *)
(* system scheduler), of the Klondike rule engine, of the pointer input    *)
(* and drag system and of the game-state system of ecs_wasm_game4.         *)
(*                                                                         *)
(* The World is carried through the rule-engine operators as a record so   *)
(* that one operation can call another (draw_from_stock calls              *)
(* reset_stock_from_waste, auto_complete calls move_card) exactly as the   *)
(* Rust code does, including the early returns that leave a partially      *)
(* updated world behind.                                                   *)
(*                                                                         *)
(* Coordinates are f64 in the source; every value the rule engine produces *)
(* is a whole number, so they are modelled as integers.  Transform.scale   *)
(* and Transform.rotation are never written after construction and are     *)
(* left out (the scale is the definition TransformScale), as is            *)
(* World.created_entities (private, write-only).                           *)
(***************************************************************************)
EXTENDS Integers, Sequences, FiniteSets, TLC

VARIABLES
    next_entity_id,      \* EntityManager.next_entity_id
    active_entities,     \* EntityManager.active_entities
    entities_to_remove,  \* EntityManager.entities_to_remove
    transforms,          \* ComponentStorage<Transform>:      id -> [x, y, z_index]
    card_infos,          \* ComponentStorage<CardInfo>:       id -> [suit, rank, face_up, color]
    renderables,         \* ComponentStorage<Renderable>:     id -> [width, height, visible, opacity]
    draggables,          \* ComponentStorage<Draggable>:      id -> Draggable
    clickables,          \* ComponentStorage<Clickable>:      id -> [is_hovering, was_clicked, click_handler]
    droppables,          \* ComponentStorage<Droppable>:      id -> [width, height, is_active]
    stacks,              \* ComponentStorage<StackContainer>: id -> [stack_type, cards, max_cards]
    systems,             \* SystemManager.systems: sequence of [name, phase, priority]
    last_call,           \* the last API call made and what it returned
    calls,               \* number of API calls made (counted only where a run is length-bounded)
    issued,              \* history: the ids returned by successful create_entity calls, in order
    tick_trace,          \* history: what the last World::run_systems call did, in order
    input_state,         \* the InputState resource: [mouse_position, left_button, is_mouse_down, is_mouse_clicked]
    drag_system,         \* the DragSystem's own fields
    pre_drag,            \* history: the board as it was when the drag in progress picked its entity up
    game_state,          \* the GameState resource
    game_state_system,   \* the GameStateSystem's own fields
    pass                 \* history: the stock as it was when drawing began, and the recycles since

worldVars == <<next_entity_id, active_entities, entities_to_remove, transforms,
               card_infos, renderables, draggables, clickables, droppables, stacks>>

\* the pointer input and the drag in progress
gameVars == <<game_state, game_state_system>>

inputVars == <<input_state, drag_system, pre_drag, gameVars, pass>>

----------------------------------------------------------------------------
(* Bounds of the model *)

\* number of suits of the sub-deck that is dealt (the game has 4)
NumSuits == 2
\* the sub-deck holds the ranks 0 .. LowRanks-1 and the King (the game has 0..12)
LowRanks == 3
\* number of tableau columns (the game has 7)
NumCols == 3
\* number of different shuffles the deal is started from
NumShuffles == 16
\* length of the call sequences explored where move_card may be called with any arguments
MaxCalls == 3
\* number of shuffles those call sequences start from
FreeShuffles == 1

----------------------------------------------------------------------------
(* Program constants *)

MAX_ENTITIES == 1000
STACK_OFFSET_Y == 25
CARD_SPACING_X == 20
CARD_WIDTH == 80
CARD_HEIGHT == 120
STOCK_X == 100
STOCK_Y == 50
WASTE_X == 200
WASTE_Y == 50
FOUNDATION_START_X == 400
FOUNDATION_START_Y == 50
TABLEAU_START_X == 100
TABLEAU_START_Y == 200

----------------------------------------------------------------------------
(* Generic helpers *)

Put(f, k, v) == [x \in (DOMAIN f) \cup {k} |-> IF x = k THEN v ELSE f[x]]

Drop(f, k) == [x \in (DOMAIN f) \ {k} |-> f[x]]

Range(s) == {s[i] : i \in 1..Len(s)}

EmptyStore == [x \in {} |-> 0]

Res(w, ret) == [w |-> w, ret |-> ret]

IsErr(r) == r.ret = "Err"

----------------------------------------------------------------------------
(* The World as a value *)

World ==
    [next_entity_id |-> next_entity_id, active_entities |-> active_entities,
     entities_to_remove |-> entities_to_remove, transforms |-> transforms,
     card_infos |-> card_infos, renderables |-> renderables,
     draggables |-> draggables, clickables |-> clickables,
     droppables |-> droppables, stacks |-> stacks]

SetWorld(w) ==
    /\ next_entity_id' = w.next_entity_id
    /\ active_entities' = w.active_entities
    /\ entities_to_remove' = w.entities_to_remove
    /\ transforms' = w.transforms
    /\ card_infos' = w.card_infos
    /\ renderables' = w.renderables
    /\ draggables' = w.draggables
    /\ clickables' = w.clickables
    /\ droppables' = w.droppables
    /\ stacks' = w.stacks

InitWorld(w) ==
    /\ next_entity_id = w.next_entity_id
    /\ active_entities = w.active_entities
    /\ entities_to_remove = w.entities_to_remove
    /\ transforms = w.transforms
    /\ card_infos = w.card_infos
    /\ renderables = w.renderables
    /\ draggables = w.draggables
    /\ clickables = w.clickables
    /\ droppables = w.droppables
    /\ stacks = w.stacks

WorldNew ==
    [next_entity_id |-> 0, active_entities |-> {}, entities_to_remove |-> {},
     transforms |-> EmptyStore, card_infos |-> EmptyStore, renderables |-> EmptyStore,
     draggables |-> EmptyStore, clickables |-> EmptyStore, droppables |-> EmptyStore,
     stacks |-> EmptyStore]

----------------------------------------------------------------------------
(* EntityManager and World: entities *)

entity_exists(w, e) == e \in w.active_entities

entity_count(w) == Cardinality(w.active_entities)

\* faulty variant of create_entity: the limit is one entity too high
create_entity_above(w) ==
    IF Cardinality(w.active_entities) > MAX_ENTITIES
    THEN [w |-> w, ret |-> "Err", id |-> -1]
    ELSE [w |-> [w EXCEPT !.next_entity_id = @ + 1,
                          !.active_entities = @ \cup {w.next_entity_id}],
          ret |-> "Ok", id |-> w.next_entity_id]

\* returns [w, ret, id]
create_entity(w) ==
    IF Cardinality(w.active_entities) >= MAX_ENTITIES
    THEN [w |-> w, ret |-> "Err", id |-> -1]
    ELSE [w |-> [w EXCEPT !.next_entity_id = @ + 1,
                          !.active_entities = @ \cup {w.next_entity_id}],
          ret |-> "Ok", id |-> w.next_entity_id]

mark_entity_for_removal(w, e) ==
    IF e \in w.active_entities
    THEN [w EXCEPT !.entities_to_remove = @ \cup {e}]
    ELSE w

\* ComponentManager::remove_entity: every storage drops the entity
component_remove_entity(w, e) ==
    [w EXCEPT !.transforms = Drop(@, e), !.card_infos = Drop(@, e),
              !.renderables = Drop(@, e), !.draggables = Drop(@, e),
              !.clickables = Drop(@, e), !.droppables = Drop(@, e),
              !.stacks = Drop(@, e)]

\* faulty variant of remove_entity: the components are left in place
remove_entity_marks_only(w, e) == mark_entity_for_removal(w, e)

remove_entity(w, e) == component_remove_entity(mark_entity_for_removal(w, e), e)

entity_manager_update(w) ==
    [w EXCEPT !.active_entities = @ \ w.entities_to_remove,
              !.entities_to_remove = {}]

world_update(w) == entity_manager_update(w)

\* faulty variant of clear_all_entities: the id counter starts over
clear_all_entities_reset(w) ==
    [w EXCEPT !.next_entity_id = 0, !.active_entities = {}, !.entities_to_remove = {}]

clear_all_entities(w) ==
    [w EXCEPT !.active_entities = {}, !.entities_to_remove = {}]

world_clear(w) ==
    [clear_all_entities(w) EXCEPT
        !.transforms = EmptyStore, !.card_infos = EmptyStore,
        !.renderables = EmptyStore, !.draggables = EmptyStore,
        !.clickables = EmptyStore, !.droppables = EmptyStore, !.stacks = EmptyStore]

----------------------------------------------------------------------------
(* World: component access guarded by entity_exists *)

has_transform(w, e) == entity_exists(w, e) /\ e \in DOMAIN w.transforms

has_card_info(w, e) == entity_exists(w, e) /\ e \in DOMAIN w.card_infos

has_draggable(w, e) == entity_exists(w, e) /\ e \in DOMAIN w.draggables

has_droppable(w, e) == entity_exists(w, e) /\ e \in DOMAIN w.droppables

has_stack(w, e) == entity_exists(w, e) /\ e \in DOMAIN w.stacks

----------------------------------------------------------------------------
(* Component constructors *)

TransformNew(x, y) == [x |-> x, y |-> y, z_index |-> 0]

CardInfoNew(suit, rank) ==
    [suit |-> suit, rank |-> rank, face_up |-> FALSE,
     color |-> IF suit < 2 THEN 0 ELSE 1]

\* opacity is an f64 in 0.0 .. 1.0 in the source; it is kept in tenths (10 is 1.0)
RenderableCard(width, height) ==
    [width |-> width, height |-> height, visible |-> TRUE, opacity |-> 10]

DraggableNew ==
    [is_dragging |-> FALSE, drag_offset |-> <<0, 0>>, original_position |-> <<0, 0>>,
     original_z_index |-> 0, width |-> 0, height |-> 0, drag_children |-> FALSE]

\* drop_types is never read
DroppableNew(width, height) == [width |-> width, height |-> height, is_active |-> TRUE]

ClickableNew(handler) ==
    [is_hovering |-> FALSE, was_clicked |-> FALSE, click_handler |-> handler]

StackContainerNew(stack_type) ==
    [stack_type |-> stack_type, cards |-> <<>>,
     max_cards |-> IF stack_type.kind = "Foundation" THEN 13 ELSE -1]

Stock == [kind |-> "Stock", index |-> 0]

Waste == [kind |-> "Waste", index |-> 0]

Tableau(column) == [kind |-> "Tableau", index |-> column]

Foundation(suit) == [kind |-> "Foundation", index |-> suit]

----------------------------------------------------------------------------
(* StackContainer methods, on the card sequence *)

\* faulty variant of add_card: the card goes under the others
add_card_bottom(cards, card_id) == <<card_id>> \o cards

add_card(cards, card_id) == Append(cards, card_id)

get_card_index(cards, card_id) ==
    IF card_id \in Range(cards)
    THEN CHOOSE i \in 1..Len(cards) :
            cards[i] = card_id /\ \A j \in 1..(i - 1) : cards[j] # card_id
    ELSE 0

\* faulty variant of remove_card: the card stays in the source
remove_card_kept(cards, card_id) == cards

\* removes the first occurrence only
remove_card(cards, card_id) ==
    LET i == get_card_index(cards, card_id)
    IN IF i = 0 THEN cards
       ELSE SubSeq(cards, 1, i - 1) \o SubSeq(cards, i + 1, Len(cards))

top_card(cards) == cards[Len(cards)]

remove_top_card(cards) == SubSeq(cards, 1, Len(cards) - 1)

contains_card(cards, card_id) == card_id \in Range(cards)

----------------------------------------------------------------------------
(* game/card.rs *)

set_card_position(w, card_id, x, y, z_index) ==
    IF has_transform(w, card_id)
    THEN Res([w EXCEPT !.transforms[card_id] = [x |-> x, y |-> y, z_index |-> z_index]], "Ok")
    ELSE Res(w, "Err")

\* toggles face_up; a card that turns face-up gets a Draggable if it has none
flip_card(w, card_id) ==
    IF has_card_info(w, card_id)
    THEN LET w1 == [w EXCEPT !.card_infos[card_id].face_up = ~@]
         IN IF w1.card_infos[card_id].face_up /\ ~has_draggable(w1, card_id)
            THEN Res([w1 EXCEPT !.draggables = Put(@, card_id, DraggableNew)], "Ok")
            ELSE Res(w1, "Ok")
    ELSE Res(w, "Err")

set_card_draggable(w, card_id, draggable) ==
    IF draggable
    THEN IF ~has_draggable(w, card_id)
         THEN IF entity_exists(w, card_id)
              THEN Res([w EXCEPT !.draggables = Put(@, card_id, DraggableNew)], "Ok")
              ELSE Res(w, "Err")
         ELSE Res(w, "Ok")
    ELSE IF entity_exists(w, card_id)
         THEN Res([w EXCEPT !.draggables = Drop(@, card_id)], "Ok")
         ELSE Res(w, "Ok")

\* faulty variant of can_stack_card: the colors are not compared
can_stack_card_any_color(w, source_card_id, target_card_id) ==
    IF ~has_card_info(w, source_card_id) THEN FALSE
    ELSE IF ~has_card_info(w, target_card_id) THEN FALSE
    ELSE w.card_infos[source_card_id].rank + 1 = w.card_infos[target_card_id].rank

can_stack_card(w, source_card_id, target_card_id) ==
    IF ~has_card_info(w, source_card_id) THEN FALSE
    ELSE IF ~has_card_info(w, target_card_id) THEN FALSE
    ELSE LET source_card == w.card_infos[source_card_id]
             target_card == w.card_infos[target_card_id]
             different_colors == source_card.color # target_card.color
             descending_rank == source_card.rank + 1 = target_card.rank
         IN different_colors /\ descending_rank

----------------------------------------------------------------------------
(* game/solitaire.rs: stock and waste *)

\* faulty variant of reset_stock_from_waste: the waste is turned over as a
\* pile, so its top card comes first
reset_stock_from_waste_reversed(w, stock_id, waste_id) ==
    IF ~has_stack(w, waste_id) THEN Res(w, "Err")
    ELSE IF w.stacks[waste_id].cards = <<>> THEN Res(w, "Ok_false")
    ELSE
      LET waste_cards == w.stacks[waste_id].cards
          w1 == [w EXCEPT !.stacks[waste_id].cards = <<>>]
      IN IF ~has_transform(w1, stock_id) THEN Res(w1, "Err")
         ELSE
           LET stock_x == w1.transforms[stock_id].x
               stock_y == w1.transforms[stock_id].y
               \* the loop over waste_cards; stops at the first card without Transform
               bad == {i \in 1..Len(waste_cards) : ~has_transform(w1, waste_cards[i])}
               stop == IF bad = {} THEN Len(waste_cards) + 1
                       ELSE CHOOSE i \in bad : \A j \in bad : i <= j
               \* cards whose face_up is cleared / whose position is set
               faced == {waste_cards[i] : i \in 1..(IF stop > Len(waste_cards) THEN stop - 1 ELSE stop)}
               placed == {waste_cards[i] : i \in 1..(stop - 1)}
               \* the position written last wins
               idx(c) == CHOOSE i \in 1..(stop - 1) :
                            waste_cards[i] = c /\ \A j \in (i + 1)..(stop - 1) : waste_cards[j] # c
               w2 == [w1 EXCEPT
                        !.card_infos = [c \in DOMAIN @ |->
                            IF c \in faced /\ has_card_info(w1, c)
                            THEN [@[c] EXCEPT !.face_up = FALSE] ELSE @[c]],
                        !.transforms = [c \in DOMAIN @ |->
                            IF c \in placed
                            THEN [x |-> stock_x, y |-> stock_y, z_index |-> idx(c) - 1]
                            ELSE @[c]]]
           IN IF bad # {} THEN Res(w2, "Err")
              ELSE IF has_stack(w2, stock_id)
                   THEN Res([w2 EXCEPT !.stacks[stock_id].cards =
                             @ \o [i \in 1..Len(waste_cards) |->
                                      waste_cards[Len(waste_cards) + 1 - i]]], "Ok_true")
                   ELSE Res(w2, "Ok_true")

\* faulty variant of reset_stock_from_waste: an empty waste counts as recycled
reset_stock_from_waste_eager(w, stock_id, waste_id) ==
    IF ~has_stack(w, waste_id) THEN Res(w, "Err")
    ELSE IF w.stacks[waste_id].cards = <<>> THEN Res(w, "Ok_true")
    ELSE
      LET waste_cards == w.stacks[waste_id].cards
          w1 == [w EXCEPT !.stacks[waste_id].cards = <<>>]
      IN IF ~has_transform(w1, stock_id) THEN Res(w1, "Err")
         ELSE
           LET stock_x == w1.transforms[stock_id].x
               stock_y == w1.transforms[stock_id].y
               \* the loop over waste_cards; stops at the first card without Transform
               bad == {i \in 1..Len(waste_cards) : ~has_transform(w1, waste_cards[i])}
               stop == IF bad = {} THEN Len(waste_cards) + 1
                       ELSE CHOOSE i \in bad : \A j \in bad : i <= j
               \* cards whose face_up is cleared / whose position is set
               faced == {waste_cards[i] : i \in 1..(IF stop > Len(waste_cards) THEN stop - 1 ELSE stop)}
               placed == {waste_cards[i] : i \in 1..(stop - 1)}
               \* the position written last wins
               idx(c) == CHOOSE i \in 1..(stop - 1) :
                            waste_cards[i] = c /\ \A j \in (i + 1)..(stop - 1) : waste_cards[j] # c
               w2 == [w1 EXCEPT
                        !.card_infos = [c \in DOMAIN @ |->
                            IF c \in faced /\ has_card_info(w1, c)
                            THEN [@[c] EXCEPT !.face_up = FALSE] ELSE @[c]],
                        !.transforms = [c \in DOMAIN @ |->
                            IF c \in placed
                            THEN [x |-> stock_x, y |-> stock_y, z_index |-> idx(c) - 1]
                            ELSE @[c]]]
           IN IF bad # {} THEN Res(w2, "Err")
              ELSE IF has_stack(w2, stock_id)
                   THEN Res([w2 EXCEPT !.stacks[stock_id].cards = @ \o waste_cards], "Ok_true")
                   ELSE Res(w2, "Ok_true")

reset_stock_from_waste(w, stock_id, waste_id) ==
    IF ~has_stack(w, waste_id) THEN Res(w, "Err")
    ELSE IF w.stacks[waste_id].cards = <<>> THEN Res(w, "Ok_false")
    ELSE
      LET waste_cards == w.stacks[waste_id].cards
          w1 == [w EXCEPT !.stacks[waste_id].cards = <<>>]
      IN IF ~has_transform(w1, stock_id) THEN Res(w1, "Err")
         ELSE
           LET stock_x == w1.transforms[stock_id].x
               stock_y == w1.transforms[stock_id].y
               \* the loop over waste_cards; stops at the first card without Transform
               bad == {i \in 1..Len(waste_cards) : ~has_transform(w1, waste_cards[i])}
               stop == IF bad = {} THEN Len(waste_cards) + 1
                       ELSE CHOOSE i \in bad : \A j \in bad : i <= j
               \* cards whose face_up is cleared / whose position is set
               faced == {waste_cards[i] : i \in 1..(IF stop > Len(waste_cards) THEN stop - 1 ELSE stop)}
               placed == {waste_cards[i] : i \in 1..(stop - 1)}
               \* the position written last wins
               idx(c) == CHOOSE i \in 1..(stop - 1) :
                            waste_cards[i] = c /\ \A j \in (i + 1)..(stop - 1) : waste_cards[j] # c
               w2 == [w1 EXCEPT
                        !.card_infos = [c \in DOMAIN @ |->
                            IF c \in faced /\ has_card_info(w1, c)
                            THEN [@[c] EXCEPT !.face_up = FALSE] ELSE @[c]],
                        !.transforms = [c \in DOMAIN @ |->
                            IF c \in placed
                            THEN [x |-> stock_x, y |-> stock_y, z_index |-> idx(c) - 1]
                            ELSE @[c]]]
           IN IF bad # {} THEN Res(w2, "Err")
              ELSE IF has_stack(w2, stock_id)
                   THEN Res([w2 EXCEPT !.stacks[stock_id].cards = @ \o waste_cards], "Ok_true")
                   ELSE Res(w2, "Ok_true")

draw_from_stock(w, stock_id, waste_id) ==
    IF ~has_stack(w, stock_id) THEN Res(w, "Err")
    ELSE IF w.stacks[stock_id].cards = <<>>
         THEN reset_stock_from_waste(w, stock_id, waste_id)
    ELSE
      LET card_id == top_card(w.stacks[stock_id].cards)
          w1 == [w EXCEPT !.stacks[stock_id].cards = remove_top_card(@)]
      IN IF ~has_transform(w1, waste_id) THEN Res(w1, "Err")
         ELSE IF ~has_stack(w1, waste_id) THEN Res(w1, "Err")
         ELSE
           LET waste_x == w1.transforms[waste_id].x
               waste_y == w1.transforms[waste_id].y
               waste_z_index == Len(w1.stacks[waste_id].cards)
               r1 == set_card_position(w1, card_id, waste_x, waste_y, waste_z_index)
               r2 == flip_card(r1.w, card_id)
               r3 == set_card_draggable(r2.w, card_id, TRUE)
           IN IF IsErr(r1) THEN Res(r1.w, "Err")
              ELSE IF IsErr(r2) THEN Res(r2.w, "Err")
              ELSE IF IsErr(r3) THEN Res(r3.w, "Err")
              ELSE Res([r3.w EXCEPT !.stacks[waste_id].cards = add_card(@, card_id)], "Ok_true")

----------------------------------------------------------------------------
(* game/solitaire.rs: placement predicates *)

\* faulty variant of can_move_to_foundation: the suit of the card is not
\* compared with the foundation's
can_move_to_foundation_any_suit(w, card_id, foundation_id) ==
    IF ~has_card_info(w, card_id) THEN FALSE
    ELSE IF ~w.card_infos[card_id].face_up THEN FALSE
    ELSE IF ~has_stack(w, foundation_id) THEN FALSE
    ELSE
      LET card_info == w.card_infos[card_id]
          foundation == w.stacks[foundation_id]
      IN IF foundation.stack_type.kind = "Foundation"
         THEN IF foundation.cards = <<>>
              THEN card_info.rank = 0
              ELSE IF ~has_card_info(w, top_card(foundation.cards)) THEN FALSE
                   ELSE card_info.rank = w.card_infos[top_card(foundation.cards)].rank + 1
         ELSE FALSE

can_move_to_foundation(w, card_id, foundation_id) ==
    IF ~has_card_info(w, card_id) THEN FALSE
    ELSE IF ~w.card_infos[card_id].face_up THEN FALSE
    ELSE IF ~has_stack(w, foundation_id) THEN FALSE
    ELSE
      LET card_info == w.card_infos[card_id]
          foundation == w.stacks[foundation_id]
      IN IF foundation.stack_type.kind = "Foundation"
         THEN IF foundation.cards = <<>>
              THEN card_info.rank = 0 /\ card_info.suit = foundation.stack_type.index
              ELSE IF ~has_card_info(w, top_card(foundation.cards)) THEN FALSE
                   ELSE /\ card_info.suit = foundation.stack_type.index
                        /\ card_info.rank = w.card_infos[top_card(foundation.cards)].rank + 1
         ELSE FALSE

\* faulty variant of can_move_to_tableau: a face-down card is not turned away
can_move_to_tableau_face_down(w, card_id, tableau_id) ==
    IF ~has_card_info(w, card_id) THEN FALSE
    ELSE IF ~has_stack(w, tableau_id) THEN FALSE
    ELSE
      LET card_info == w.card_infos[card_id]
          tableau == w.stacks[tableau_id]
      IN IF tableau.stack_type.kind = "Tableau"
         THEN IF tableau.cards = <<>>
              THEN card_info.rank = 12
              ELSE can_stack_card(w, card_id, top_card(tableau.cards))
         ELSE FALSE

can_move_to_tableau(w, card_id, tableau_id) ==
    IF ~has_card_info(w, card_id) THEN FALSE
    ELSE IF ~w.card_infos[card_id].face_up THEN FALSE
    ELSE IF ~has_stack(w, tableau_id) THEN FALSE
    ELSE
      LET card_info == w.card_infos[card_id]
          tableau == w.stacks[tableau_id]
      IN IF tableau.stack_type.kind = "Tableau"
         THEN IF tableau.cards = <<>>
              THEN card_info.rank = 12
              ELSE can_stack_card(w, card_id, top_card(tableau.cards))
         ELSE FALSE

----------------------------------------------------------------------------
(* game/solitaire.rs: moves *)

\* faulty variant of reveal_source_top: nothing is turned over
reveal_source_top_never(w, from_stack_id) ==
    IF ~has_stack(w, from_stack_id) THEN Res(w, "Err") ELSE Res(w, "Ok_true")

\* the auto-reveal block shared by move_card and move_card_stack
reveal_source_top(w, from_stack_id) ==
    IF ~has_stack(w, from_stack_id) THEN Res(w, "Err")
    ELSE
      LET from_stack == w.stacks[from_stack_id]
      IN IF /\ from_stack.stack_type.kind = "Tableau"
            /\ from_stack.cards # <<>>
            /\ has_card_info(w, top_card(from_stack.cards))
            /\ ~w.card_infos[top_card(from_stack.cards)].face_up
         THEN LET r == flip_card(w, top_card(from_stack.cards))
              IN IF IsErr(r) THEN r ELSE Res(r.w, "Ok_true")
         ELSE Res(w, "Ok_true")

\* faulty variant of move_card: the source is not asked whether it has the card
move_card_any_source(w, card_id, from_stack_id, to_stack_id) ==
    IF ~has_stack(w, from_stack_id) THEN Res(w, "Err")
    ELSE IF ~has_transform(w, to_stack_id) THEN Res(w, "Err")
    ELSE IF ~has_stack(w, to_stack_id) THEN Res(w, "Err")
    ELSE
      LET to_x == w.transforms[to_stack_id].x
          to_y == w.transforms[to_stack_id].y
          to_z_index == Len(w.stacks[to_stack_id].cards)
          w1 == [w EXCEPT !.stacks[from_stack_id].cards = remove_card(@, card_id)]
          r2 == set_card_position(w1, card_id, to_x, to_y, to_z_index)
      IN IF IsErr(r2) THEN Res(r2.w, "Err")
         ELSE LET w3 == [r2.w EXCEPT !.stacks[to_stack_id].cards = add_card(@, card_id)]
              IN reveal_source_top(w3, from_stack_id)

move_card(w, card_id, from_stack_id, to_stack_id) ==
    IF ~has_stack(w, from_stack_id) THEN Res(w, "Err")
    ELSE IF ~contains_card(w.stacks[from_stack_id].cards, card_id) THEN Res(w, "Ok_false")
    ELSE IF ~has_transform(w, to_stack_id) THEN Res(w, "Err")
    ELSE IF ~has_stack(w, to_stack_id) THEN Res(w, "Err")
    ELSE
      LET to_x == w.transforms[to_stack_id].x
          to_y == w.transforms[to_stack_id].y
          to_z_index == Len(w.stacks[to_stack_id].cards)
          w1 == [w EXCEPT !.stacks[from_stack_id].cards = remove_card(@, card_id)]
          r2 == set_card_position(w1, card_id, to_x, to_y, to_z_index)
      IN IF IsErr(r2) THEN Res(r2.w, "Err")
         ELSE LET w3 == [r2.w EXCEPT !.stacks[to_stack_id].cards = add_card(@, card_id)]
              IN reveal_source_top(w3, from_stack_id)

\* faulty variant of remove_cards: only the first card of the list leaves
remove_cards_first(cards, list) == remove_card(cards, Head(list))

\* remove_card applied to each card of a list in turn
RECURSIVE remove_cards(_, _)
remove_cards(cards, list) ==
    IF list = <<>> THEN cards
    ELSE remove_cards(remove_card(cards, Head(list)), Tail(list))

\* the placement loop of move_card_stack: cards list[i..] are placed one by one;
\* returns the world and whether a card without Transform stopped the loop
RECURSIVE place_cards(_, _, _, _, _, _, _)
place_cards(w, list, i, base_x, base_y, current_card_count, to_stack_type) ==
    IF i > Len(list) THEN Res(w, "Ok")
    ELSE
      LET z_index == current_card_count + (i - 1)
          y_offset == IF to_stack_type.kind = "Tableau" THEN (i - 1) * STACK_OFFSET_Y ELSE 0
          r == set_card_position(w, list[i], base_x, base_y + y_offset, z_index)
      IN IF IsErr(r) THEN r
         ELSE place_cards(r.w, list, i + 1, base_x, base_y, current_card_count, to_stack_type)

\* faulty variant of can_move_stack: every destination is accepted
can_move_stack_always(w, from_cards, from_stack_type, to_stack_id) == TRUE

\* the legality match of move_card_stack
can_move_stack(w, from_cards, from_stack_type, to_stack_id) ==
    LET to_stack == w.stacks[to_stack_id]
    IN IF from_stack_type.kind = "Tableau" /\ to_stack.stack_type.kind = "Tableau"
       THEN IF to_stack.cards = <<>>
            THEN IF has_card_info(w, from_cards[1])
                 THEN w.card_infos[from_cards[1]].rank = 12
                 ELSE FALSE
            ELSE can_stack_card(w, from_cards[1], top_card(to_stack.cards))
       ELSE IF to_stack.stack_type.kind = "Foundation"
       THEN IF Len(from_cards) > 1 THEN FALSE
            ELSE can_move_to_foundation(w, from_cards[1], to_stack_id)
       ELSE Len(from_cards) = 1 /\ can_move_to_tableau(w, from_cards[1], to_stack_id)

move_card_stack(w, card_id, from_stack_id, to_stack_id) ==
    IF ~has_stack(w, from_stack_id) THEN Res(w, "Err")
    ELSE IF ~contains_card(w.stacks[from_stack_id].cards, card_id) THEN Res(w, "Ok_false")
    ELSE
      LET from_stack == w.stacks[from_stack_id]
          card_index == get_card_index(from_stack.cards, card_id)
          from_cards == SubSeq(from_stack.cards, card_index, Len(from_stack.cards))
      IN IF ~has_stack(w, to_stack_id) THEN Res(w, "Err")
         ELSE IF ~can_move_stack(w, from_cards, from_stack.stack_type, to_stack_id)
              THEN Res(w, "Ok_false")
         ELSE
           LET to_stack_type == w.stacks[to_stack_id].stack_type
               w1 == [w EXCEPT !.stacks[from_stack_id].cards = remove_cards(@, from_cards)]
           IN IF ~has_transform(w1, to_stack_id) THEN Res(w1, "Err")
              ELSE
                LET base_x == w1.transforms[to_stack_id].x
                    base_y == w1.transforms[to_stack_id].y
                    current_card_count == Len(w1.stacks[to_stack_id].cards)
                    r2 == place_cards(w1, from_cards, 1, base_x, base_y,
                                      current_card_count, to_stack_type)
                IN IF IsErr(r2) THEN Res(r2.w, "Err")
                   ELSE LET w3 == [r2.w EXCEPT !.stacks[to_stack_id].cards = @ \o from_cards]
                        IN reveal_source_top(w3, from_stack_id)

----------------------------------------------------------------------------
(* game/solitaire.rs: auto_complete *)

\* index of the first foundation of the list that accepts the card, 0 if none
first_accepting(w, card_id, foundation_ids) ==
    LET ok == {k \in 1..Len(foundation_ids) :
                   can_move_to_foundation(w, card_id, foundation_ids[k])}
    IN IF ok = {} THEN 0 ELSE CHOOSE k \in ok : \A j \in ok : k <= j

\* faulty variant of auto_complete_one: a top card that no foundation accepts
\* counts as moved
auto_complete_one_idle(w, stack_id, foundation_ids) ==
    IF ~has_stack(w, stack_id) \/ w.stacks[stack_id].cards = <<>>
    THEN [w |-> w, ret |-> "Ok", moved |-> FALSE]
    ELSE
      LET top_card_id == top_card(w.stacks[stack_id].cards)
          k == first_accepting(w, top_card_id, foundation_ids)
      IN IF k = 0 THEN [w |-> w, ret |-> "Ok", moved |-> TRUE]
         ELSE LET r == move_card(w, top_card_id, stack_id, foundation_ids[k])
              IN [w |-> r.w, ret |-> IF IsErr(r) THEN "Err" ELSE "Ok", moved |-> TRUE]

\* one source stack of auto_complete: returns [w, ret, moved]
auto_complete_one(w, stack_id, foundation_ids) ==
    IF ~has_stack(w, stack_id) \/ w.stacks[stack_id].cards = <<>>
    THEN [w |-> w, ret |-> "Ok", moved |-> FALSE]
    ELSE
      LET top_card_id == top_card(w.stacks[stack_id].cards)
          k == first_accepting(w, top_card_id, foundation_ids)
      IN IF k = 0 THEN [w |-> w, ret |-> "Ok", moved |-> FALSE]
         ELSE LET r == move_card(w, top_card_id, stack_id, foundation_ids[k])
              IN [w |-> r.w, ret |-> IF IsErr(r) THEN "Err" ELSE "Ok", moved |-> TRUE]

\* the loop over tableau_ids[i..]: returns [w, ret, moved]
RECURSIVE auto_complete_tableaus(_, _, _, _, _)
auto_complete_tableaus(w, tableau_ids, i, foundation_ids, moved_any_card) ==
    IF i > Len(tableau_ids) THEN [w |-> w, ret |-> "Ok", moved |-> moved_any_card]
    ELSE LET r == auto_complete_one(w, tableau_ids[i], foundation_ids)
         IN IF r.ret = "Err" THEN r
            ELSE auto_complete_tableaus(r.w, tableau_ids, i + 1, foundation_ids,
                                        moved_any_card \/ r.moved)

\* faulty variant of auto_complete: the waste is not looked at
auto_complete_tableaus_only(w, tableau_ids, foundation_ids, waste_id) ==
    LET r1 == auto_complete_tableaus(w, tableau_ids, 1, foundation_ids, FALSE)
    IN IF r1.ret = "Err" THEN Res(r1.w, "Err")
       ELSE Res(r1.w, IF r1.moved THEN "Ok_true" ELSE "Ok_false")

auto_complete(w, tableau_ids, foundation_ids, waste_id) ==
    LET r1 == auto_complete_tableaus(w, tableau_ids, 1, foundation_ids, FALSE)
    IN IF r1.ret = "Err" THEN Res(r1.w, "Err")
       ELSE LET r2 == auto_complete_one(r1.w, waste_id, foundation_ids)
            IN IF r2.ret = "Err" THEN Res(r2.w, "Err")
               ELSE Res(r2.w, IF r1.moved \/ r2.moved THEN "Ok_true" ELSE "Ok_false")

----------------------------------------------------------------------------
(* game/card.rs and game/solitaire.rs: building the board *)

\* the suits of the sub-deck, taken in the order 0, 2, 1, 3 so that both colors occur
DeckSuits == {s \in 0..3 : (s % 2) * 2 + (s \div 2) < NumSuits}

DeckRanks == (0..(LowRanks - 1)) \cup {12}

RECURSIVE SortedSeq(_)
SortedSeq(S) ==
    IF S = {} THEN <<>>
    ELSE LET m == CHOOSE x \in S : \A y \in S : x <= y
         IN <<m>> \o SortedSeq(S \ {m})

\* the (suit, rank) pairs in the order of the nested loops of create_deck
CardList ==
    LET suits == SortedSeq(DeckSuits)
        ranks == SortedSeq(DeckRanks)
    IN [n \in 1..(Len(suits) * Len(ranks)) |->
           <<suits[((n - 1) \div Len(ranks)) + 1], ranks[((n - 1) % Len(ranks)) + 1]>>]

NumCards == Len(CardList)

\* returns [w, ret, id]
create_card(w, suit, rank, x, y, face_up, z_index) ==
    LET r == create_entity(w)
        e == r.id
    IN IF r.ret = "Err" THEN r
       ELSE [w |-> [r.w EXCEPT
                      !.transforms = Put(@, e, [TransformNew(x, y) EXCEPT !.z_index = z_index]),
                      !.card_infos = Put(@, e, [CardInfoNew(suit, rank) EXCEPT !.face_up = face_up]),
                      !.renderables = Put(@, e, RenderableCard(CARD_WIDTH, CARD_HEIGHT)),
                      !.draggables = IF face_up THEN Put(@, e, DraggableNew) ELSE @,
                      !.clickables = Put(@, e, ClickableNew("FlipCard"))],
             ret |-> "Ok", id |-> e]

\* the loop of create_deck from the n-th card on: returns [w, ret, deck]
RECURSIVE create_deck_from(_, _, _, _, _)
create_deck_from(w, n, x, y, deck) ==
    IF n > NumCards THEN [w |-> w, ret |-> "Ok", deck |-> deck]
    ELSE LET suit == CardList[n][1]
             rank == CardList[n][2]
             r == create_card(w, suit, rank, x, y, FALSE, suit * 13 + rank)
         IN IF r.ret = "Err" THEN [w |-> r.w, ret |-> "Err", deck |-> deck]
            ELSE create_deck_from(r.w, n + 1, x, y, Append(deck, r.id))

create_deck(w, x, y) == create_deck_from(w, 1, x, y, <<>>)

\* an entity with Transform, StackContainer and Clickable: returns [w, ret, id]
create_stack_entity(w, x, y, stack_type, handler) ==
    LET r == create_entity(w)
        e == r.id
    IN IF r.ret = "Err" THEN r
       ELSE [w |-> [r.w EXCEPT
                      !.transforms = Put(@, e, TransformNew(x, y)),
                      !.stacks = Put(@, e, StackContainerNew(stack_type)),
                      !.clickables = Put(@, e, ClickableNew(handler))],
             ret |-> "Ok", id |-> e]

create_stock(w) == create_stack_entity(w, STOCK_X, STOCK_Y, Stock, "DrawFromStock")

create_waste(w) == create_stack_entity(w, WASTE_X, WASTE_Y, Waste, "DrawFromWaste")

\* x of the i-th column: START_X + i * CARD_SPACING_X * 1.5
column_x(start_x, i) == start_x + (i * CARD_SPACING_X * 3) \div 2

\* the loops of create_tableau / create_foundations from index i on: [w, ret, ids]
RECURSIVE create_columns(_, _, _, _, _)
create_columns(w, i, n, kind, ids) ==
    IF i >= n THEN [w |-> w, ret |-> "Ok", ids |-> ids]
    ELSE LET r == IF kind = "Tableau"
                  THEN create_stack_entity(w, column_x(TABLEAU_START_X, i), TABLEAU_START_Y,
                                           Tableau(i), <<"DrawFromTableau", i>>)
                  ELSE create_stack_entity(w, column_x(FOUNDATION_START_X, i), FOUNDATION_START_Y,
                                           Foundation(i), <<"DrawFromFoundation", i>>)
         IN IF r.ret = "Err" THEN [w |-> r.w, ret |-> "Err", ids |-> ids]
            ELSE create_columns(r.w, i + 1, n, kind, Append(ids, r.id))

create_tableau(w) == create_columns(w, 0, NumCols, "Tableau", <<>>)

create_foundations(w) == create_columns(w, 0, 4, "Foundation", <<>>)

\* the inner loop of deal_cards_to_tableau for one column, from card j on:
\* returns [w, ret, deck, tableau_cards]
RECURSIVE deal_column(_, _, _, _, _, _, _)
deal_column(w, deck, j, num_cards, base_x, base_y, tableau_cards) ==
    IF j >= num_cards \/ deck = <<>>
    THEN [w |-> w, ret |-> "Ok", deck |-> deck, tableau_cards |-> tableau_cards]
    ELSE
      LET card_id == deck[Len(deck)]
          rest == SubSeq(deck, 1, Len(deck) - 1)
          r1 == set_card_position(w, card_id, base_x, base_y + j * STACK_OFFSET_Y, j)
          r2 == IF j = num_cards - 1 THEN flip_card(r1.w, card_id) ELSE Res(r1.w, "Ok")
          r3 == IF /\ j = num_cards - 1
                   /\ has_card_info(r2.w, card_id)
                   /\ r2.w.card_infos[card_id].face_up
                THEN set_card_draggable(r2.w, card_id, TRUE) ELSE Res(r2.w, "Ok")
      IN IF IsErr(r1) THEN [w |-> r1.w, ret |-> "Err", deck |-> rest, tableau_cards |-> tableau_cards]
         ELSE IF IsErr(r2) THEN [w |-> r2.w, ret |-> "Err", deck |-> rest, tableau_cards |-> tableau_cards]
         ELSE IF IsErr(r3) THEN [w |-> r3.w, ret |-> "Err", deck |-> rest, tableau_cards |-> tableau_cards]
         ELSE deal_column(r3.w, rest, j + 1, num_cards, base_x, base_y,
                          Append(tableau_cards, card_id))

\* the outer loop from column i (1-based position in tableau_ids) on: [w, ret, deck]
RECURSIVE deal_cards_to_tableau_from(_, _, _, _)
deal_cards_to_tableau_from(w, deck, tableau_ids, i) ==
    IF i > Len(tableau_ids) THEN [w |-> w, ret |-> "Ok", deck |-> deck]
    ELSE
      LET tableau_id == tableau_ids[i]
      IN IF ~has_transform(w, tableau_id) THEN [w |-> w, ret |-> "Err", deck |-> deck]
         ELSE
           LET r == deal_column(w, deck, 0, i, w.transforms[tableau_id].x,
                                w.transforms[tableau_id].y, <<>>)
               w2 == IF has_stack(r.w, tableau_id)
                     THEN [r.w EXCEPT !.stacks[tableau_id].cards = @ \o r.tableau_cards]
                     ELSE r.w
           IN IF r.ret = "Err" THEN [w |-> r.w, ret |-> "Err", deck |-> r.deck]
              ELSE deal_cards_to_tableau_from(w2, r.deck, tableau_ids, i + 1)

\* faulty variant of deal_cards_to_tableau: the first column gets no card
deal_cards_to_tableau_late(w, deck, tableau_ids) ==
    deal_cards_to_tableau_from(w, deck, tableau_ids, 2)

deal_cards_to_tableau(w, deck, tableau_ids) == deal_cards_to_tableau_from(w, deck, tableau_ids, 1)

\* the positioning loop of add_cards_to_stock from card i on
RECURSIVE position_stock_cards(_, _, _, _, _)
position_stock_cards(w, cards, i, x, y) ==
    IF i > Len(cards) THEN Res(w, "Ok")
    ELSE LET r == set_card_position(w, cards[i], x, y, i - 1)
         IN IF IsErr(r) THEN r ELSE position_stock_cards(r.w, cards, i + 1, x, y)

add_cards_to_stock(w, stock_id, cards) ==
    IF ~has_transform(w, stock_id) THEN Res(w, "Err")
    ELSE LET r == position_stock_cards(w, cards, 1, w.transforms[stock_id].x,
                                       w.transforms[stock_id].y)
         IN IF IsErr(r) THEN r
            ELSE IF has_stack(r.w, stock_id)
                 THEN Res([r.w EXCEPT !.stacks[stock_id].cards = @ \o cards], "Ok")
                 ELSE Res(r.w, "Ok")

\* shuffle_deck: the deck rearranged by a permutation of its positions
shuffle_deck(deck, perm) == [i \in 1..Len(deck) |-> deck[perm[i]]]

\* returns [w, ret]; perm is the outcome of the shuffle
setup_solitaire_board(w, perm) ==
    LET r1 == create_deck(w, STOCK_X, STOCK_Y)
        deck == shuffle_deck(r1.deck, perm)
        r2 == create_stock(r1.w)
        r3 == create_waste(r2.w)
        r4 == create_tableau(r3.w)
        r5 == deal_cards_to_tableau(r4.w, deck, r4.ids)
        r6 == create_foundations(r5.w)
        r7 == add_cards_to_stock(r6.w, r2.id, r5.deck)
    IN IF r1.ret = "Err" THEN Res(r1.w, "Err")
       ELSE IF r2.ret = "Err" THEN Res(r2.w, "Err")
       ELSE IF r3.ret = "Err" THEN Res(r3.w, "Err")
       ELSE IF r4.ret = "Err" THEN Res(r4.w, "Err")
       ELSE IF r5.ret = "Err" THEN Res(r5.w, "Err")
       ELSE IF r6.ret = "Err" THEN Res(r6.w, "Err")
       ELSE r7

----------------------------------------------------------------------------
(* The shuffles the model deals from *)

RECURSIVE Fact(_)
Fact(n) == IF n <= 1 THEN 1 ELSE n * Fact(n - 1)

\* the k-th permutation of s in lexicographic order, k in 0 .. Len(s)! - 1
RECURSIVE KthPerm(_, _)
KthPerm(s, k) ==
    IF s = <<>> THEN <<>>
    ELSE LET f == Fact(Len(s) - 1)
             i == (k \div f) + 1
         IN <<s[i]>> \o KthPerm(SubSeq(s, 1, i - 1) \o SubSeq(s, i + 1, Len(s)), k % f)

\* NumShuffles permutations spread over all NumCards! of them
Shuffle(j) == KthPerm([i \in 1..NumCards |-> i], (j * 7919) % Fact(NumCards))

Shuffles == {Shuffle(j) : j \in 0..(NumShuffles - 1)}

----------------------------------------------------------------------------
(* Ids of the stacks of the dealt board, in creation order *)

StockId == NumCards

WasteId == NumCards + 1

TableauIds == [i \in 1..NumCols |-> NumCards + 1 + i]

FoundationIds == [i \in 1..4 |-> NumCards + 1 + NumCols + i]

StackIds == {StockId, WasteId} \cup Range(TableauIds) \cup Range(FoundationIds)

CardIds == 0..(NumCards - 1)

----------------------------------------------------------------------------
(* The pointer input and the drag system, as constructed *)

\* an Option<EntityId> that is None
NoEntity == -1

\* InputState::new; of mouse_buttons only the left one (index 0) is ever
\* written, and only the mouse fields are read by the systems
InputStateNew ==
    [mouse_position |-> <<0, 0>>, left_button |-> FALSE,
     is_mouse_down |-> FALSE, is_mouse_clicked |-> FALSE]

\* DragSystem::new; drag_start_position and drag_started are written only by
\* start_drag, which nothing calls
DragSystemNew ==
    [dragged_entity |-> NoEntity, last_mouse_pos |-> <<0, 0>>,
     left_button_pressed_prev |-> FALSE, original_z_index |-> 0]

\* GameStateSystem::new; the Vec of foundation ids is kept as the set of its
\* elements, since it is read only by check_game_clear, which asks the same
\* of every element
GameStateSystemNew == [foundation_ids |-> {}]

\* no card has been drawn yet
NoPass == [stock |-> <<>>, recycled |-> -1, whole |-> TRUE]

\* no drag has picked anything up
NoDrag == [entity |-> NoEntity]

InputIdle ==
    /\ input_state = InputStateNew
    /\ drag_system = DragSystemNew
    /\ pre_drag = NoDrag
    /\ game_state = "Title"
    /\ game_state_system = GameStateSystemNew
    /\ pass = NoPass

----------------------------------------------------------------------------
(* Actions: the rule engine called on the dealt board *)

Call(op, ret) == [op |-> op, ret |-> ret]

InitBoard(perms) ==
    /\ \E perm \in perms : InitWorld(setup_solitaire_board(WorldNew, perm).w)
    /\ last_call = Call("setup_solitaire_board", "Ok")
    /\ calls = 0
    /\ issued = [i \in 1..next_entity_id |-> i - 1]
    /\ systems = <<>>
    /\ tick_trace = <<>>
    /\ InputIdle

DoDrawFromStock ==
    LET r == draw_from_stock(World, StockId, WasteId)
    IN /\ SetWorld(r.w)
       /\ last_call' = Call("draw_from_stock", r.ret)

DoResetStockFromWaste ==
    LET r == reset_stock_from_waste(World, StockId, WasteId)
    IN /\ SetWorld(r.w)
       /\ last_call' = Call("reset_stock_from_waste", r.ret)

\* the calls tried: the card is in the source, or (for the answer "not in the
\* source") the source is the stock and the destination the waste
MoveArgs(card_id, from_stack_id, to_stack_id) ==
    \/ from_stack_id \in DOMAIN stacks /\ card_id \in Range(stacks[from_stack_id].cards)
    \/ from_stack_id = StockId /\ to_stack_id = WasteId

DoMoveCardStack ==
    \E card_id \in CardIds, from_stack_id \in StackIds, to_stack_id \in StackIds :
        /\ MoveArgs(card_id, from_stack_id, to_stack_id)
        /\ LET r == move_card_stack(World, card_id, from_stack_id, to_stack_id)
           IN /\ SetWorld(r.w)
              /\ last_call' = Call("move_card_stack", r.ret)

DoMoveCard ==
    \E card_id \in CardIds, from_stack_id \in StackIds, to_stack_id \in StackIds :
        /\ MoveArgs(card_id, from_stack_id, to_stack_id)
        /\ LET r == move_card(World, card_id, from_stack_id, to_stack_id)
           IN /\ SetWorld(r.w)
              /\ last_call' = Call("move_card", r.ret)

DoAutoComplete ==
    LET r == auto_complete(World, TableauIds, FoundationIds, WasteId)
    IN /\ SetWorld(r.w)
       /\ last_call' = Call("auto_complete", r.ret)

vars == <<next_entity_id, active_entities, entities_to_remove, transforms,
          card_infos, renderables, draggables, clickables, droppables, stacks,
          systems,
          last_call, calls, issued, tick_trace, input_state, drag_system, pre_drag,
          game_state, game_state_system, pass>>

\* what the rule engine never touches
schedVars == <<systems, issued, tick_trace, inputVars>>

----------------------------------------------------------------------------
(* Spec: the rule engine's checked operations on the dealt board *)

DrawFromStock == DoDrawFromStock /\ UNCHANGED <<calls, schedVars>>

ResetStockFromWaste == DoResetStockFromWaste /\ UNCHANGED <<calls, schedVars>>

MoveCardStack == DoMoveCardStack /\ UNCHANGED <<calls, schedVars>>

AutoComplete == DoAutoComplete /\ UNCHANGED <<calls, schedVars>>

Init == InitBoard(Shuffles)

Next == DrawFromStock \/ ResetStockFromWaste \/ MoveCardStack \/ AutoComplete

Spec == Init /\ [][Next]_vars

----------------------------------------------------------------------------
(* SpecFree: call sequences of bounded length that may also use move_card,   *)
(* which moves a card without consulting any placement rule                 *)

Counted(A) == calls < MaxCalls /\ A /\ calls' = calls + 1 /\ UNCHANGED schedVars

FreeDrawFromStock == Counted(DoDrawFromStock)

FreeResetStockFromWaste == Counted(DoResetStockFromWaste)

FreeMoveCardStack == Counted(DoMoveCardStack)

FreeMoveCard == Counted(DoMoveCard)

FreeAutoComplete == Counted(DoAutoComplete)

InitFree == InitBoard({Shuffle(j) : j \in 0..(FreeShuffles - 1)})

NextFree ==
    \/ FreeDrawFromStock
    \/ FreeResetStockFromWaste
    \/ FreeMoveCardStack
    \/ FreeMoveCard
    \/ FreeAutoComplete

SpecFree == InitFree /\ [][NextFree]_vars

----------------------------------------------------------------------------
(* World: adding and removing one component (shown for Transform) *)

\* faulty variant of add_component_transform: the entity is not looked up
add_component_transform_unguarded(w, e, transform) ==
    Res([w EXCEPT !.transforms = Put(@, e, transform)], "Ok")

add_component_transform(w, e, transform) ==
    IF ~entity_exists(w, e) THEN Res(w, "Err")
    ELSE Res([w EXCEPT !.transforms = Put(@, e, transform)], "Ok")

\* World::add_component for a Droppable
add_component_droppable(w, e, droppable) ==
    IF ~entity_exists(w, e) THEN Res(w, "Err")
    ELSE Res([w EXCEPT !.droppables = Put(@, e, droppable)], "Ok")

\* World::get_component: Some(&T) or None, never an error
get_component_transform(w, e) ==
    IF ~entity_exists(w, e) THEN "None"
    ELSE IF e \in DOMAIN w.transforms THEN "Some" ELSE "None"

remove_component_transform(w, e) ==
    IF ~entity_exists(w, e) THEN Res(w, "None")
    ELSE IF e \in DOMAIN w.transforms
         THEN Res([w EXCEPT !.transforms = Drop(@, e)], "Some")
         ELSE Res(w, "None")

\* World::remove_component for a StackContainer
remove_component_stack(w, e) ==
    IF ~entity_exists(w, e) THEN Res(w, "None")
    ELSE IF e \in DOMAIN w.stacks
         THEN Res([w EXCEPT !.stacks = Drop(@, e)], "Some")
         ELSE Res(w, "None")

----------------------------------------------------------------------------
(* SystemManager *)

\* SystemPhase in declaration order, which is the order of the derived Ord
Input == 0
PreUpdate == 1
Update == 2
PostUpdate == 3
Render == 4

SystemPhases == {Input, PreUpdate, Update, PostUpdate, Render}

\* Ord::cmp on integers
cmp(a, b) == IF a < b THEN "Less" ELSE IF a = b THEN "Equal" ELSE "Greater"

\* the comparison given to sort_by
system_cmp(a, b) ==
    LET phase_cmp == cmp(a.phase, b.phase)
    IN IF phase_cmp = "Equal" THEN cmp(a.priority, b.priority) ELSE phase_cmp

add_system(sys, system) == Append(sys, system)

\* slice::sort_by is a stable sort: each element is put behind every element
\* that does not compare greater than it
RECURSIVE sort_insert(_, _)
\* faulty variant of sort_insert: an unstable sort, equal elements change places
sort_insert_unstable(sorted, system) ==
    IF sorted = <<>> THEN <<system>>
    ELSE IF system_cmp(system, Head(sorted)) # "Greater"
         THEN <<system>> \o sorted
         ELSE <<Head(sorted)>> \o sort_insert(Tail(sorted), system)

sort_insert(sorted, system) ==
    IF sorted = <<>> THEN <<system>>
    ELSE IF system_cmp(system, Head(sorted)) = "Less"
         THEN <<system>> \o sorted
         ELSE <<Head(sorted)>> \o sort_insert(Tail(sorted), system)

RECURSIVE sort_by(_)
sort_by(sys) ==
    IF sys = <<>> THEN <<>>
    ELSE sort_insert(sort_by(SubSeq(sys, 1, Len(sys) - 1)), sys[Len(sys)])

\* what a System::run call may do: return Ok or Err, and before that remove
\* an entity through World::remove_entity or leave the entities alone
NoSystem == 0

RunEvent(system, ret, w) ==
    [event |-> "run", system |-> system, ret |-> ret,
     active_entities |-> w.active_entities,
     entities_to_remove |-> w.entities_to_remove]

UpdateEvent(w) ==
    [event |-> "update", active_entities |-> w.active_entities,
     entities_to_remove |-> w.entities_to_remove]

system_run(w, outcome) ==
    IF outcome.remove = NoEntity THEN w ELSE remove_entity(w, outcome.remove)

\* the loop of SystemManager::run_systems from position i on
RECURSIVE run_from(_, _, _, _, _)
\* faulty variant of run_from: an error does not end the loop
run_from_keep_going(w, sys, outcomes, i, trace) ==
    IF i > Len(sys)
    THEN [w |-> w, ret |-> "Ok", err |-> NoSystem, trace |-> trace]
    ELSE LET w1 == system_run(w, outcomes[i])
             t1 == Append(trace, RunEvent(sys[i], outcomes[i].ret, w1))
         IN run_from(w1, sys, outcomes, i + 1, t1)

run_from(w, sys, outcomes, i, trace) ==
    IF i > Len(sys)
    THEN [w |-> w, ret |-> "Ok", err |-> NoSystem, trace |-> trace]
    ELSE LET w1 == system_run(w, outcomes[i])
             t1 == Append(trace, RunEvent(sys[i], outcomes[i].ret, w1))
         IN IF outcomes[i].ret = "Err"
            THEN [w |-> w1, ret |-> "Err", err |-> sys[i].name, trace |-> t1]
            ELSE run_from(w1, sys, outcomes, i + 1, t1)

\* returns [w, systems, ret, err, trace]
system_manager_run_systems(w, sys, outcomes) ==
    LET sorted == sort_by(sys)
        r == run_from(w, sorted, outcomes, 1, <<>>)
    IN [w |-> r.w, systems |-> sorted, ret |-> r.ret, err |-> r.err, trace |-> r.trace]

\* faulty variant of world_run_systems: the flush comes before the systems
world_run_systems_update_first(w, sys, outcomes) ==
    LET w0 == world_update(w)
        r == system_manager_run_systems(w0, sys, outcomes)
    IN [r EXCEPT !.trace = <<UpdateEvent(w0)>> \o @]

world_run_systems(w, sys, outcomes) ==
    LET r == system_manager_run_systems(w, sys, outcomes)
    IN IF r.ret = "Err" THEN r
       ELSE LET w1 == world_update(r.w)
            IN [r EXCEPT !.w = w1, !.trace = Append(@, UpdateEvent(w1))]

----------------------------------------------------------------------------
(* Actions: the World and the SystemManager called directly *)

\* bounds
MaxIds == 3
MaxExtraIds == 2
MaxSystems == 3
MaxPriority == 1

CallOn(op, ret, id) == [op |-> op, ret |-> ret, id |-> id]

InitEmpty ==
    /\ InitWorld(WorldNew)
    /\ systems = <<>>
    /\ last_call = Call("new", "Ok")
    /\ calls = 0
    /\ issued = <<>>
    /\ tick_trace = <<>>
    /\ InputIdle

\* World::create_entity, tried while fewer than limit ids have been issued
DoCreateEntity(limit) ==
    /\ next_entity_id < limit
    /\ LET r == create_entity(World)
       IN /\ SetWorld(r.w)
          /\ issued' = IF r.ret = "Ok" THEN Append(issued, r.id) ELSE issued
          /\ last_call' = CallOn("create_entity", r.ret, r.id)
    /\ UNCHANGED <<systems, calls, tick_trace, inputVars>>

DoAddComponent(ids) ==
    \E e \in ids :
        LET r == add_component_transform(World, e, TransformNew(0, 0))
        IN /\ SetWorld(r.w)
           /\ last_call' = CallOn("add_component", r.ret, e)
           /\ UNCHANGED <<calls, schedVars>>

DoGetComponent(ids) ==
    \E e \in ids :
        /\ last_call' = CallOn("get_component", get_component_transform(World, e), e)
        /\ UNCHANGED <<worldVars, calls, schedVars>>

DoRemoveComponent(ids) ==
    \E e \in ids :
        LET r == remove_component_transform(World, e)
        IN /\ SetWorld(r.w)
           /\ last_call' = CallOn("remove_component", r.ret, e)
           /\ UNCHANGED <<calls, schedVars>>

DoRemoveEntity(ids) ==
    \E e \in ids :
        /\ SetWorld(remove_entity(World, e))
        /\ last_call' = CallOn("remove_entity", "Ok", e)
        /\ UNCHANGED <<calls, schedVars>>

DoUpdate ==
    /\ SetWorld(world_update(World))
    /\ last_call' = Call("update", "Ok")
    /\ UNCHANGED <<calls, schedVars>>

DoClear ==
    /\ SetWorld(world_clear(World))
    /\ last_call' = Call("clear", "Ok")
    /\ UNCHANGED <<calls, schedVars>>

----------------------------------------------------------------------------
(* SpecEntity: the entity API of the World from World::new *)

EntityIds == 0..MaxIds

CreateEntity == DoCreateEntity(MaxIds)

AddComponent == DoAddComponent(EntityIds)

GetComponent == DoGetComponent(EntityIds)

RemoveComponent == DoRemoveComponent(EntityIds)

RemoveEntity == DoRemoveEntity(EntityIds)

WorldUpdate == DoUpdate

WorldClear == DoClear

NextEntity ==
    \/ CreateEntity
    \/ AddComponent
    \/ GetComponent
    \/ RemoveComponent
    \/ RemoveEntity
    \/ WorldUpdate
    \/ WorldClear

SpecEntity == InitEmpty /\ [][NextEntity]_vars

----------------------------------------------------------------------------
(* SpecCapacity: the World filled up to MAX_ENTITIES and beyond *)

CapacityIds == {0, MAX_ENTITIES - 1}

FillCreateEntity == DoCreateEntity(MAX_ENTITIES + MaxExtraIds)

FillRemoveEntity == DoRemoveEntity(CapacityIds)

FillUpdate == DoUpdate

NextCapacity == FillCreateEntity \/ FillRemoveEntity \/ FillUpdate

SpecCapacity == InitEmpty /\ [][NextCapacity]_vars

----------------------------------------------------------------------------
(* SpecWorld: the rule engine on the dealt board, with World::remove_entity  *)
(* and World::update called in between                                      *)

\* a card and a stack
RemovableIds == {0, StockId}

BoardRemoveEntity == DoRemoveEntity(RemovableIds)

BoardUpdate == DoUpdate

NextWorld ==
    \/ DrawFromStock
    \/ ResetStockFromWaste
    \/ MoveCardStack
    \/ AutoComplete
    \/ BoardRemoveEntity
    \/ BoardUpdate

SpecWorld == InitFree /\ [][NextWorld]_vars

----------------------------------------------------------------------------
(* SpecSched: systems registered and ticks run on a World of MaxIds entities *)

Priorities == 0..MaxPriority

\* a system returns Ok, returns Ok after removing entity 0, or returns Err
Outcomes ==
    {[ret |-> "Ok", remove |-> NoEntity], [ret |-> "Ok", remove |-> 0],
     [ret |-> "Err", remove |-> NoEntity]}

\* n entities created, each given a Transform
RECURSIVE populate(_, _)
populate(w, n) ==
    IF n = 0 THEN w
    ELSE LET r == create_entity(populate(w, n - 1))
         IN add_component_transform(r.w, r.id, TransformNew(0, 0)).w

InitSched ==
    /\ InitWorld(populate(WorldNew, MaxIds))
    /\ systems = <<>>
    /\ last_call = Call("new", "Ok")
    /\ calls = 0
    /\ issued = [i \in 1..MaxIds |-> i - 1]
    /\ tick_trace = <<>>
    /\ InputIdle

AddSystem ==
    \E phase \in SystemPhases, priority \in Priorities :
        /\ Len(systems) < MaxSystems
        /\ systems' = add_system(systems,
               [name |-> Len(systems) + 1, phase |-> phase, priority |-> priority])
        /\ last_call' = Call("add_system", "Ok")
        /\ UNCHANGED <<worldVars, calls, issued, tick_trace, inputVars>>

RunSystems ==
    \E outcomes \in [1..Len(systems) -> Outcomes] :
        LET r == world_run_systems(World, systems, outcomes)
        IN /\ SetWorld(r.w)
           /\ systems' = r.systems
           /\ tick_trace' = r.trace
           /\ last_call' = CallOn("run_systems", r.ret, r.err)
           /\ UNCHANGED <<calls, issued, inputVars>>

NextSched == AddSystem \/ RunSystems

SpecSched == InitSched /\ [][NextSched]_vars

----------------------------------------------------------------------------
(* SpecPlace: the placement predicates asked about any card of the full    *)
(* deck and a stack that is empty or has any other card on top             *)

\* every card of the 52-card deck, face-down or face-up
AnyCard == [suit : 0..3, rank : 0..12, face_up : BOOLEAN]

\* the card asked about is entity 0, the other card entity 1, the stack entity 2
place_world(card, other, stack_type, filled) ==
    LET r1 == create_card(WorldNew, card.suit, card.rank, 0, 0, card.face_up, 0)
        r2 == create_card(r1.w, other.suit, other.rank, 0, 0, other.face_up, 0)
        r3 == create_stack_entity(r2.w, 0, 0, stack_type, "DrawFromStock")
    IN IF filled THEN [r3.w EXCEPT !.stacks[r3.id].cards = add_card(@, r2.id)] ELSE r3.w

InitPlace ==
    /\ \E card \in AnyCard, other \in AnyCard, filled \in BOOLEAN,
          stack_type \in {Tableau(0)} \cup {Foundation(suit) : suit \in 0..3} :
           /\ filled \/ other = [suit |-> 0, rank |-> 0, face_up |-> FALSE]
           /\ InitWorld(place_world(card, other, stack_type, filled))
    /\ systems = <<>>
    /\ last_call = Call("new", "Ok")
    /\ calls = 0
    /\ issued = <<0, 1, 2>>
    /\ tick_trace = <<>>
    /\ InputIdle

CanMoveToTableau ==
    /\ last_call' = CallOn("can_move_to_tableau", can_move_to_tableau(World, 0, 2), 0)
    /\ UNCHANGED <<worldVars, calls, schedVars>>

CanMoveToFoundation ==
    /\ last_call' = CallOn("can_move_to_foundation", can_move_to_foundation(World, 0, 2), 0)
    /\ UNCHANGED <<worldVars, calls, schedVars>>

NextPlace == CanMoveToTableau \/ CanMoveToFoundation

SpecPlace == InitPlace /\ [][NextPlace]_vars

----------------------------------------------------------------------------
(* SpecMove: the boards the checked operations reach from the first deal,   *)
(* with the arguments of every move_card and move_card_stack call kept in   *)
(* last_call. A sequence is followed through the move_card_stack calls that *)
(* moved cards; it ends with a move_card call or with a move_card_stack     *)
(* call that was refused.                                                   *)

CallMove(op, ret, card_id, from_stack_id, to_stack_id) ==
    [op |-> op, ret |-> ret, card_id |-> card_id,
     from_stack_id |-> from_stack_id, to_stack_id |-> to_stack_id]

\* the calls tried: the card is in the source and the destination is any
\* stack, or the card and the source are any and the destination is the waste
KeptArgs(card_id, from_stack_id, to_stack_id) ==
    \/ card_id \in Range(stacks[from_stack_id].cards)
    \/ to_stack_id = WasteId

KeptMoveCard ==
    \E card_id \in CardIds, from_stack_id \in StackIds, to_stack_id \in StackIds :
        /\ calls = 0
        /\ KeptArgs(card_id, from_stack_id, to_stack_id)
        /\ LET r == move_card(World, card_id, from_stack_id, to_stack_id)
           IN /\ SetWorld(r.w)
              /\ last_call' = CallMove("move_card", r.ret, card_id, from_stack_id, to_stack_id)
        /\ calls' = 1
        /\ UNCHANGED schedVars

KeptMoveCardStack ==
    \E card_id \in CardIds, from_stack_id \in StackIds, to_stack_id \in StackIds :
        /\ calls = 0
        /\ KeptArgs(card_id, from_stack_id, to_stack_id)
        /\ LET r == move_card_stack(World, card_id, from_stack_id, to_stack_id)
           IN /\ SetWorld(r.w)
              /\ last_call' =
                     CallMove("move_card_stack", r.ret, card_id, from_stack_id, to_stack_id)
              /\ calls' = IF r.ret = "Ok_true" THEN calls ELSE 1
        /\ UNCHANGED schedVars

NextMove ==
    \/ calls = 0 /\ DrawFromStock
    \/ calls = 0 /\ ResetStockFromWaste
    \/ calls = 0 /\ AutoComplete
    \/ KeptMoveCard
    \/ KeptMoveCardStack

SpecMove == InitFree /\ [][NextMove]_vars

----------------------------------------------------------------------------
(* SpecTaken: one move_card or move_card_stack call on the dealt board from *)
(* which up to MaxTaken components, the Transform or the StackContainer of  *)
(* a card or a stack of TakenIds, have been removed                          *)

MaxTaken == 2

\* the top cards of the second and third column, and those columns
TakenIds == {2, NumCards - 3, TableauIds[2], TableauIds[3]}

\* world.remove_component::<Transform>(entity_id)
TakeTransform ==
    \E entity_id \in TakenIds :
        /\ calls < MaxTaken
        /\ last_call.op \in {"setup_solitaire_board", "remove_component"}
        /\ has_transform(World, entity_id)
        /\ LET r == remove_component_transform(World, entity_id)
           IN /\ SetWorld(r.w)
              /\ last_call' = CallOn("remove_component", r.ret, entity_id)
        /\ calls' = calls + 1
        /\ UNCHANGED schedVars

\* world.remove_component::<StackContainer>(entity_id)
TakeStackContainer ==
    \E entity_id \in TakenIds :
        /\ calls < MaxTaken
        /\ last_call.op \in {"setup_solitaire_board", "remove_component"}
        /\ has_stack(World, entity_id)
        /\ LET r == remove_component_stack(World, entity_id)
           IN /\ SetWorld(r.w)
              /\ last_call' = CallOn("remove_component", r.ret, entity_id)
        /\ calls' = calls + 1
        /\ UNCHANGED schedVars

\* the calls tried: the source has lost its StackContainer, or the card is in it
TakenArgs(card_id, from_stack_id) ==
    from_stack_id \in DOMAIN stacks => card_id \in Range(stacks[from_stack_id].cards)

TakenMoveCard ==
    \E card_id \in CardIds, from_stack_id \in StackIds, to_stack_id \in StackIds :
        /\ last_call.op \in {"setup_solitaire_board", "remove_component"}
        /\ TakenArgs(card_id, from_stack_id)
        /\ LET r == move_card(World, card_id, from_stack_id, to_stack_id)
           IN /\ SetWorld(r.w)
              /\ last_call' = CallMove("move_card", r.ret, card_id, from_stack_id, to_stack_id)
        /\ UNCHANGED <<calls, schedVars>>

TakenMoveCardStack ==
    \E card_id \in CardIds, from_stack_id \in StackIds, to_stack_id \in StackIds :
        /\ last_call.op \in {"setup_solitaire_board", "remove_component"}
        /\ TakenArgs(card_id, from_stack_id)
        /\ LET r == move_card_stack(World, card_id, from_stack_id, to_stack_id)
           IN /\ SetWorld(r.w)
              /\ last_call' =
                     CallMove("move_card_stack", r.ret, card_id, from_stack_id, to_stack_id)
        /\ UNCHANGED <<calls, schedVars>>

NextTaken == TakeTransform \/ TakeStackContainer \/ TakenMoveCard \/ TakenMoveCardStack

SpecTaken == InitFree /\ [][NextTaken]_vars

----------------------------------------------------------------------------
(* game/solitaire.rs: check_game_clear *)

\* faulty variant of check_game_clear: the top card is not looked at
check_game_clear_count_only(w, foundation_ids) ==
    \A i \in 1..Len(foundation_ids) :
        LET foundation_id == foundation_ids[i]
        IN /\ has_stack(w, foundation_id)
           /\ w.stacks[foundation_id].stack_type.kind = "Foundation" =>
                 Len(w.stacks[foundation_id].cards) = 13

\* the loop returns false at the first listed stack that fails a test and
\* true after the last; a listed stack that is no Foundation is passed over
check_game_clear(w, foundation_ids) ==
    \A i \in 1..Len(foundation_ids) :
        LET foundation_id == foundation_ids[i]
        IN /\ has_stack(w, foundation_id)
           /\ w.stacks[foundation_id].stack_type.kind = "Foundation" =>
                 LET foundation == w.stacks[foundation_id]
                 IN /\ Len(foundation.cards) = 13
                    /\ foundation.cards # <<>>
                    /\ has_card_info(w, top_card(foundation.cards))
                    /\ w.card_infos[top_card(foundation.cards)].rank = 12

----------------------------------------------------------------------------
(* game/state.rs: GameStateSystem *)

GameStates == {"Title", "Playing", "Paused", "GameOver", "Clear"}

\* GameStateSystem::find_foundation_ids: the list is filled once, while empty
find_foundation_ids(gs, w) ==
    IF gs.foundation_ids # {} THEN gs
    ELSE [gs EXCEPT !.foundation_ids =
             {e \in DOMAIN w.stacks :
                 has_stack(w, e) /\ w.stacks[e].stack_type.kind = "Foundation"}]

\* GameStateSystem::check_game_clear
system_check_game_clear(gs, w) ==
    IF gs.foundation_ids = {} THEN FALSE
    ELSE check_game_clear(w, SortedSeq(gs.foundation_ids))

\* faulty variant of game_state_system_run: the check is made in every state
game_state_system_run_any_state(gs, w, state) ==
    LET gs1 == find_foundation_ids(gs, w)
    IN [gs |-> gs1,
        state |-> IF system_check_game_clear(gs1, w) THEN "Clear" ELSE state]

\* GameStateSystem::run with the GameState resource present: [gs, state]
game_state_system_run(gs, w, state) ==
    LET gs1 == find_foundation_ids(gs, w)
    IN [gs |-> gs1,
        state |-> IF state = "Playing" /\ system_check_game_clear(gs1, w)
                  THEN "Clear" ELSE state]

\* change_game_state with the GameState resource present
change_game_state(state, new_state) == new_state

----------------------------------------------------------------------------
(* SpecClear: check_game_clear on worlds whose four foundations hold 0, 12, *)
(* 13 or 14 cards with a Queen or a King on top, for every list of them     *)

PileCounts == {0, 12, 13, 14}

TopRanks == {11, 12}

PileSlots == 14

Piles == {p \in [count : PileCounts, top_rank : TopRanks] : p.count = 0 => p.top_rank = 12}

\* entities 0..3 are the foundations; the cards of foundation f are the
\* entities 4 + PileSlots * f onward, ranks rising from the Ace, the top
\* card of the chosen rank
pile_card(f, i) == 4 + PileSlots * f + (i - 1)

clear_world(piles) ==
    LET cards == {pile_card(f, i) : f \in 0..3, i \in 1..PileSlots}
        used == {c \in cards : \E f \in 0..3 : \E i \in 1..piles[f].count : c = pile_card(f, i)}
        pile_of(c) == (c - 4) \div PileSlots
        slot_of(c) == ((c - 4) % PileSlots) + 1
    IN [WorldNew EXCEPT
          !.next_entity_id = 4 + 4 * PileSlots,
          !.active_entities = (0..3) \cup used,
          !.transforms = [e \in (0..3) \cup used |-> TransformNew(0, 0)],
          !.card_infos = [c \in used |->
              [CardInfoNew(pile_of(c),
                           IF slot_of(c) = piles[pile_of(c)].count
                           THEN piles[pile_of(c)].top_rank ELSE slot_of(c) - 1)
                  EXCEPT !.face_up = TRUE]],
          !.stacks = [f \in 0..3 |->
              [StackContainerNew(Foundation(f)) EXCEPT
                  !.cards = [i \in 1..piles[f].count |-> pile_card(f, i)]]]]

\* the lists passed: the foundations in creation order, any of them left out
FoundationLists ==
    {SelectSeq(<<0, 1, 2, 3>>, LAMBDA f : f \in chosen) : chosen \in SUBSET (0..3)}

CallList(op, ret, foundation_ids) == [op |-> op, ret |-> ret, foundation_ids |-> foundation_ids]

InitClear ==
    /\ \E piles \in [0..3 -> Piles] : InitWorld(clear_world(piles))
    /\ systems = <<>>
    /\ last_call = Call("new", "Ok")
    /\ calls = 0
    /\ issued = <<>>
    /\ tick_trace = <<>>
    /\ InputIdle

CheckGameClear ==
    \E foundation_ids \in FoundationLists :
        /\ last_call' = CallList("check_game_clear",
                                 check_game_clear(World, foundation_ids), foundation_ids)
        /\ UNCHANGED <<worldVars, calls, schedVars>>

NextClear == CheckGameClear

SpecClear == InitClear /\ [][NextClear]_vars

----------------------------------------------------------------------------
(* SpecState: the GameStateSystem's ticks and the state-changing functions  *)
(* on boards whose four foundations start with 13 cards each, a Queen or a  *)
(* King on top, and where up to MaxShifts move_card calls carry a top card  *)
(* from one foundation to another                                           *)

MaxShifts == 2

StatePiles == {p \in Piles : p.count = 13}

InitState ==
    /\ \E piles \in [0..3 -> StatePiles] : InitWorld(clear_world(piles))
    /\ systems = <<>>
    /\ last_call = Call("new", "Ok")
    /\ calls = 0
    /\ issued = <<>>
    /\ tick_trace = <<>>
    /\ InputIdle

\* GameStateSystem::run, in a tick
StateTick ==
    LET g == game_state_system_run(game_state_system, World, game_state)
    IN /\ game_state_system' = g.gs
       /\ game_state' = g.state
       /\ last_call' = Call("game_state_system_run", "Ok")
       /\ UNCHANGED <<worldVars, calls, systems, issued, tick_trace, input_state,
                      drag_system, pre_drag, pass>>

ChangeTo(op, new_state) ==
    /\ game_state' = change_game_state(game_state, new_state)
    /\ last_call' = Call(op, "Ok")
    /\ UNCHANGED <<worldVars, calls, systems, issued, tick_trace, input_state,
                   drag_system, pre_drag, game_state_system, pass>>

StartGame == ChangeTo("start_game", "Playing")

PauseGame == ChangeTo("pause_game", "Paused")

ResumeGame == ChangeTo("resume_game", "Playing")

GameOver == ChangeTo("game_over", "GameOver")

ReturnToTitle == ChangeTo("return_to_title", "Title")

\* move_card with the top card of one foundation and another foundation
ShiftTop ==
    \E from_stack_id \in 0..3, to_stack_id \in 0..3 :
        /\ calls < MaxShifts
        /\ from_stack_id # to_stack_id
        /\ stacks[from_stack_id].cards # <<>>
        /\ LET r == move_card(World, top_card(stacks[from_stack_id].cards),
                              from_stack_id, to_stack_id)
           IN /\ SetWorld(r.w)
              /\ last_call' = Call("move_card", r.ret)
        /\ calls' = calls + 1
        /\ UNCHANGED schedVars

NextState ==
    \/ StateTick
    \/ StartGame
    \/ PauseGame
    \/ ResumeGame
    \/ GameOver
    \/ ReturnToTitle
    \/ ShiftTop

SpecState == InitState /\ [][NextState]_vars

----------------------------------------------------------------------------
(* SpecPass: the stock of the dealt board, made longer by up to MaxFed      *)
(* move_card calls that put the top card of a column on it, and then drawn  *)
(* through and recycled up to MaxPasses times                               *)

MaxFed == 2

MaxPasses == 3

\* move_card with the top card of a column and the stock, before any draw
FeedStock ==
    \E k \in 1..NumCols :
        /\ calls < MaxFed
        /\ pass = NoPass
        /\ stacks[TableauIds[k]].cards # <<>>
        /\ LET r == move_card(World, top_card(stacks[TableauIds[k]].cards),
                              TableauIds[k], StockId)
           IN /\ SetWorld(r.w)
              /\ last_call' = Call("move_card", r.ret)
        /\ calls' = calls + 1
        /\ UNCHANGED <<systems, issued, tick_trace, input_state, drag_system, pre_drag,
                       gameVars, pass>>

\* the history after a call: the first call notes the stock it found; a call
\* that recycles is counted, and noted if the stock was not drawn through
Passed(recycles) ==
    LET noted == IF pass = NoPass
                 THEN [stock |-> stacks[StockId].cards, recycled |-> 0, whole |-> TRUE]
                 ELSE pass
    IN IF recycles
       THEN [noted EXCEPT !.recycled = @ + 1,
                          !.whole = @ /\ stacks[StockId].cards = <<>>]
       ELSE noted

PassDrawFromStock ==
    /\ pass.recycled < MaxPasses
    /\ LET r == draw_from_stock(World, StockId, WasteId)
       IN /\ SetWorld(r.w)
          /\ last_call' = Call("draw_from_stock", r.ret)
          /\ pass' = Passed(stacks[StockId].cards = <<>> /\ r.ret = "Ok_true")
    /\ UNCHANGED <<calls, systems, issued, tick_trace, input_state, drag_system, pre_drag,
                   gameVars>>

PassResetStockFromWaste ==
    /\ pass.recycled < MaxPasses
    /\ LET r == reset_stock_from_waste(World, StockId, WasteId)
       IN /\ SetWorld(r.w)
          /\ last_call' = Call("reset_stock_from_waste", r.ret)
          /\ pass' = Passed(r.ret = "Ok_true")
    /\ UNCHANGED <<calls, systems, issued, tick_trace, input_state, drag_system, pre_drag,
                   gameVars>>

NextPass == FeedStock \/ PassDrawFromStock \/ PassResetStockFromWaste

SpecPass == Init /\ [][NextPass]_vars

----------------------------------------------------------------------------
(* SpecLoop: any play of the checked operations, then a caller that calls   *)
(* auto_complete again and again until it returns Ok(false); calls counts   *)
(* the calls of that loop                                                   *)

LoopDone == calls > 0 /\ last_call = Call("auto_complete", "Ok_false")

LoopAutoComplete ==
    /\ ~LoopDone
    /\ DoAutoComplete
    /\ calls' = calls + 1
    /\ UNCHANGED schedVars

NextLoop ==
    \/ calls = 0 /\ DrawFromStock
    \/ calls = 0 /\ ResetStockFromWaste
    \/ calls = 0 /\ MoveCardStack
    \/ LoopAutoComplete

\* the caller's next call, seen on the counter alone: under NextLoop the
\* steps that advance calls are exactly the LoopAutoComplete steps, and one
\* is possible exactly while the loop is not done
LoopAdvance == ~LoopDone /\ calls' = calls + 1

\* the caller does not stop calling while auto_complete has not returned
\* Ok(false)
SpecLoop == Init /\ [][NextLoop]_vars /\ WF_calls(LoopAdvance)

----------------------------------------------------------------------------
(* ecs/world.rs: get_entity_at_position *)

\* the test of the loop body: Transform and Renderable present, visible, and
\* the point inside the box, borders included
hit(w, entity_id, x, y) ==
    /\ has_transform(w, entity_id)
    /\ entity_id \in DOMAIN w.renderables
    /\ w.renderables[entity_id].visible
    /\ LET left == w.transforms[entity_id].x
           top == w.transforms[entity_id].y
           right == left + w.renderables[entity_id].width
           bottom == top + w.renderables[entity_id].height
       IN x >= left /\ x <= right /\ y >= top /\ y <= bottom

\* faulty variant of get_entity_at_position: sorted by rising z-index
get_entity_at_position_lowest(w, all_entities, x, y) ==
    LET clickable_entities == SelectSeq(all_entities, LAMBDA e : hit(w, e, x, y))
        z(i) == w.transforms[clickable_entities[i]].z_index
    IN IF clickable_entities = <<>> THEN NoEntity
       ELSE clickable_entities[CHOOSE i \in 1..Len(clickable_entities) :
                /\ \A j \in 1..Len(clickable_entities) : z(j) >= z(i)
                /\ \A j \in 1..(i - 1) : z(j) > z(i)]

\* all_entities is get_all_entities(): the alive ids in the order the HashSet
\* happens to yield them. The first element after the stable sort by falling
\* z-index is the earliest entity of greatest z-index; None is NoEntity
get_entity_at_position(w, all_entities, x, y) ==
    LET clickable_entities == SelectSeq(all_entities, LAMBDA e : hit(w, e, x, y))
        z(i) == w.transforms[clickable_entities[i]].z_index
    IN IF clickable_entities = <<>> THEN NoEntity
       ELSE clickable_entities[CHOOSE i \in 1..Len(clickable_entities) :
                /\ \A j \in 1..Len(clickable_entities) : z(j) <= z(i)
                /\ \A j \in 1..(i - 1) : z(j) < z(i)]

\* the orders a HashSet may yield its elements in
Orders(set) ==
    {order \in [1..Cardinality(set) -> set] :
        \A i, j \in 1..Cardinality(set) : order[i] = order[j] => i = j}

----------------------------------------------------------------------------
(* SpecPick: get_entity_at_position on worlds of MaxPicked entities, each    *)
(* without Transform, without Renderable, or a box of side BoxSide at one of *)
(* two places, visible or not, on one of two layers                          *)

MaxPicked == 3

BoxSide == 10

PickKinds ==
    [has_transform : {FALSE}, has_renderable : {TRUE}, visible : {TRUE}, x : {0}, z_index : {0}]
    \cup [has_transform : {TRUE}, has_renderable : {FALSE}, visible : {TRUE}, x : {0}, z_index : {0}]
    \cup [has_transform : {TRUE}, has_renderable : {TRUE}, visible : BOOLEAN,
          x : {0, BoxSide}, z_index : {0, 1}]

PointXs == {-1, 0, 5, BoxSide, BoxSide + 1, 2 * BoxSide, 2 * BoxSide + 1}

PointYs == {-1, 0, BoxSide, BoxSide + 1}

pick_world(kinds) ==
    LET ids == 0..(MaxPicked - 1)
    IN [WorldNew EXCEPT
          !.next_entity_id = MaxPicked,
          !.active_entities = ids,
          !.transforms = [e \in {e \in ids : kinds[e].has_transform} |->
              [TransformNew(kinds[e].x, 0) EXCEPT !.z_index = kinds[e].z_index]],
          !.renderables = [e \in {e \in ids : kinds[e].has_renderable} |->
              [RenderableCard(BoxSide, BoxSide) EXCEPT !.visible = kinds[e].visible]]]

CallAt(op, ret, x, y) == [op |-> op, ret |-> ret, x |-> x, y |-> y]

InitPick ==
    /\ \E kinds \in [0..(MaxPicked - 1) -> PickKinds] : InitWorld(pick_world(kinds))
    /\ systems = <<>>
    /\ last_call = Call("new", "Ok")
    /\ calls = 0
    /\ issued = <<>>
    /\ tick_trace = <<>>
    /\ InputIdle

GetEntityAtPosition ==
    \E x \in PointXs, y \in PointYs, all_entities \in Orders(active_entities) :
        /\ last_call' = CallAt("get_entity_at_position",
                               get_entity_at_position(World, all_entities, x, y), x, y)
        /\ UNCHANGED <<worldVars, calls, schedVars>>

NextPick == GetEntityAtPosition

SpecPick == InitPick /\ [][NextPick]_vars

----------------------------------------------------------------------------
(* render/systems.rs: what the Render-phase system writes into the world *)

\* the Transform update_stack_positions gives the i-th card (from 1) of a stack
stack_slot(w, stack_id, i) ==
    [x |-> w.transforms[stack_id].x,
     y |-> IF w.stacks[stack_id].stack_type.kind = "Tableau"
           THEN w.transforms[stack_id].y + (i - 1) * STACK_OFFSET_Y
           ELSE w.transforms[stack_id].y,
     z_index |-> i - 1]

\* RenderSystem::update_stack_positions: every card listed by a stack that has
\* a Transform is put on its slot; the stack types written are Tableau,
\* Foundation, Stock and Waste (no stack of type Hand is ever created).  A
\* card listed twice gets the slot the loops meet last; the stacks are taken
\* here in the order of their ids, and every board this is applied to lists
\* each card once, so that the order of the loop over the stacks is immaterial.
update_stack_positions(w) ==
    LET places == UNION {{<<s, i>> : i \in 1..Len(w.stacks[s].cards)} :
                            s \in {t \in DOMAIN w.stacks : has_stack(w, t) /\ has_transform(w, t)}}
        listed(e) == {p \in places : w.stacks[p[1]].cards[p[2]] = e}
        last(e) == CHOOSE p \in listed(e) :
                       \A q \in listed(e) : q[1] < p[1] \/ (q[1] = p[1] /\ q[2] <= p[2])
    IN [w EXCEPT !.transforms =
           [e \in DOMAIN w.transforms |->
               IF has_transform(w, e) /\ listed(e) # {}
               THEN stack_slot(w, last(e)[1], last(e)[2])
               ELSE w.transforms[e]]]

\* RenderSystem::run; update_visual_state writes nothing
render_system_run(w) == update_stack_positions(w)

----------------------------------------------------------------------------
(* The drag system: what World::run_systems does with the pointer input.   *)
(* Of the four registered systems DragSystem (phase Input) and RenderSystem *)
(* (phase Render) change the world: InputSystem acts when is_mouse_down     *)
(* differs from the left button, which the mouse handlers never produce,    *)
(* GameStateSystem writes the GameState resource only, and no entity is     *)
(* ever marked for removal, so the update at the end of the frame changes   *)
(* nothing.                                                                 *)
(* DragSystem::update calls find_clicked_entity, handle_entity_click,       *)
(* end_drag and highlight_drop_target and nothing else: start_drag,         *)
(* update_drag, process_drop, process_multi_card_drop and                   *)
(* reset_card_positions have no caller.                                     *)

\* Transform::new gives every entity the scale (1.0, 1.0), and nothing writes it
TransformScale == 1

\* z-index and opacity (in tenths) handle_entity_click gives the picked entity
DragZIndex == 1000

DragOpacity == 7

\* DragSystem::find_clicked_entity: the entities the loop can end with. The
\* loop runs over World::get_all_entities, a HashSet in no fixed order, and
\* keeps the first entity of strictly greater z-index, so among the entities
\* under the point any one of greatest z-index can be the answer.
find_clicked_entity(w, mouse_position) ==
    LET inside(e) ==
            /\ e \in DOMAIN w.transforms
            /\ mouse_position[1] >= w.transforms[e].x
            /\ mouse_position[1] <= w.transforms[e].x + TransformScale
            /\ mouse_position[2] >= w.transforms[e].y
            /\ mouse_position[2] <= w.transforms[e].y + TransformScale
        found == {e \in w.active_entities :
                     /\ inside(e)
                     /\ e \in DOMAIN w.renderables
                     /\ w.renderables[e].visible /\ w.renderables[e].opacity > 0
                     /\ w.transforms[e].z_index > -1}
    IN IF found = {} THEN {NoEntity}
       ELSE {e \in found : \A f \in found : w.transforms[f].z_index <= w.transforms[e].z_index}

\* the system and the world a DragSystem method leaves
Drag(ds, w) == [ds |-> ds, w |-> w]

\* DragSystem::handle_entity_click
handle_entity_click(ds, w, entity_id) ==
    IF has_draggable(w, entity_id)
    THEN LET w1 == IF entity_id \in DOMAIN w.renderables
                   THEN [w EXCEPT !.renderables[entity_id].opacity = DragOpacity]
                   ELSE w
         IN IF entity_id \in DOMAIN w.transforms
            THEN Drag([ds EXCEPT !.dragged_entity = entity_id,
                                 !.original_z_index = w.transforms[entity_id].z_index],
                      [w1 EXCEPT !.transforms[entity_id].z_index = DragZIndex])
            ELSE Drag([ds EXCEPT !.dragged_entity = entity_id], w1)
    ELSE Drag(ds, w)

\* DragSystem::end_drag
end_drag(ds, w) ==
    IF ds.dragged_entity = NoEntity THEN w
    ELSE
      LET entity_id == ds.dragged_entity
          w1 == IF entity_id \in DOMAIN w.draggables
                THEN LET w0 == [w EXCEPT !.draggables[entity_id].is_dragging = FALSE]
                     IN IF entity_id \in DOMAIN w.transforms
                        THEN [w0 EXCEPT !.transforms[entity_id].z_index = ds.original_z_index]
                        ELSE w0
                ELSE w
      IN IF entity_id \in DOMAIN w1.renderables
         THEN [w1 EXCEPT !.renderables[entity_id].opacity = 10]
         ELSE w1

\* the test of find_drop_target's loop body: Transform and Droppable present
\* and the position inside the Droppable's box, borders included
over(w, entity_id, position) ==
    /\ has_transform(w, entity_id)
    /\ has_droppable(w, entity_id)
    /\ position[1] >= w.transforms[entity_id].x
    /\ position[1] <= w.transforms[entity_id].x + w.droppables[entity_id].width
    /\ position[2] >= w.transforms[entity_id].y
    /\ position[2] <= w.transforms[entity_id].y + w.droppables[entity_id].height

\* DragSystem::find_drop_target. droppable_entities is what
\* get_entities_with_component::<Droppable>() yields: the keys of the storage
\* in the order the HashMap happens to have. highest_z_index starts at -1 and
\* a candidate replaces the one held only if its z-index is greater
find_drop_target(w, droppable_entities, position, dragged_entity) ==
    LET inside == SelectSeq(droppable_entities,
                            LAMBDA e : e # dragged_entity /\ over(w, e, position))
        z(i) == w.transforms[inside[i]].z_index
        held == {i \in 1..Len(inside) :
                    /\ z(i) > -1
                    /\ \A j \in 1..Len(inside) : z(j) <= z(i)
                    /\ \A j \in 1..(i - 1) : z(j) < z(i)}
    IN IF held = {} THEN NoEntity ELSE inside[CHOOSE i \in held : TRUE]

\* DragSystem::is_valid_drop
is_valid_drop(w, dragged_entity, target_entity) ==
    has_draggable(w, dragged_entity) /\ has_droppable(w, target_entity)

\* DragSystem::highlight_drop_target
highlight_drop_target(ds, w, droppable_entities, position) ==
    IF ds.dragged_entity = NoEntity THEN w
    ELSE
      LET w1 == [w EXCEPT !.droppables =
                    [e \in DOMAIN w.droppables |->
                        IF has_droppable(w, e)
                        THEN [w.droppables[e] EXCEPT !.is_active = FALSE]
                        ELSE w.droppables[e]]]
          drop_target == find_drop_target(w1, droppable_entities, position, ds.dragged_entity)
      IN IF drop_target # NoEntity /\ is_valid_drop(w1, ds.dragged_entity, drop_target)
         THEN [w1 EXCEPT !.droppables[drop_target].is_active = TRUE]
         ELSE w1

\* DragSystem::update, with clicked the entity find_clicked_entity answers and
\* droppable_entities the order in which the Droppable storage is iterated
update(ds, w, mouse_state, clicked, droppable_entities) ==
    LET mouse_delta == <<mouse_state.mouse_position[1] - ds.last_mouse_pos[1],
                         mouse_state.mouse_position[2] - ds.last_mouse_pos[2]>>
        ds1 == [ds EXCEPT !.last_mouse_pos = mouse_state.mouse_position]
        \* the button went down, or the click flag is up
        d2 == IF /\ \/ mouse_state.left_button /\ ~ds1.left_button_pressed_prev
                    \/ mouse_state.is_mouse_clicked
                 /\ clicked # NoEntity
              THEN handle_entity_click(ds1, w, clicked)
              ELSE Drag(ds1, w)
        \* the button went up
        d3 == IF /\ ~mouse_state.left_button /\ d2.ds.left_button_pressed_prev
                 /\ d2.ds.dragged_entity # NoEntity
              THEN Drag([d2.ds EXCEPT !.dragged_entity = NoEntity], end_drag(d2.ds, d2.w))
              ELSE d2
        \* the button is down and something is dragged
        d4 == IF /\ mouse_state.left_button /\ d3.ds.dragged_entity # NoEntity
                 /\ d3.ds.dragged_entity \in DOMAIN d3.w.transforms
              THEN LET e == d3.ds.dragged_entity
                       t == d3.w.transforms[e]
                       w4 == [d3.w EXCEPT !.transforms[e].x = t.x + mouse_delta[1],
                                          !.transforms[e].y = t.y + mouse_delta[2]]
                   IN Drag(d3.ds, highlight_drop_target(d3.ds, w4, droppable_entities,
                                                        <<t.x + mouse_delta[1], t.y + mouse_delta[2]>>))
              ELSE d3
    IN Drag([d4.ds EXCEPT !.left_button_pressed_prev = mouse_state.left_button], d4.w)

\* InputState::update_mouse_position
update_mouse_position(state, x, y) == [state EXCEPT !.mouse_position = <<x, y>>]

\* InputState::update_mouse_button for the left button
update_mouse_button(state, pressed) ==
    [state EXCEPT !.left_button = pressed, !.is_mouse_down = pressed]

----------------------------------------------------------------------------
(* SpecDrag: the pointer handlers and the frames of the game loop on a      *)
(* board that is as dealt or one move_card_stack call later                 *)

\* at most so many presses of the button in a run
MaxPresses == 2

\* where the pointer is put: the corners of the second slot of the second
\* column, of the first, third and fourth slot of the third column and of the
\* first foundation, and an empty place
PointerPlaces ==
    {<<0, 0>>, <<FOUNDATION_START_X, FOUNDATION_START_Y>>}
    \cup {<<column_x(TABLEAU_START_X, 1), TABLEAU_START_Y + STACK_OFFSET_Y>>}
    \cup {<<column_x(TABLEAU_START_X, 2), TABLEAU_START_Y + j * STACK_OFFSET_Y>> : j \in {0, 2, 3}}

\* the one rule-engine call a run may start with, so that the drag also meets
\* a column with a run of face-up cards
FirstMoveCardStack ==
    /\ last_call.op = "setup_solitaire_board"
    /\ DoMoveCardStack
    /\ UNCHANGED <<calls, schedVars>>

\* mouse_down_closure of InputHandler::register_mouse_handlers
MouseDown ==
    \E p \in PointerPlaces :
        /\ calls < MaxPresses
        /\ ~input_state.left_button
        /\ input_state' = [update_mouse_button(update_mouse_position(input_state, p[1], p[2]), TRUE)
                              EXCEPT !.is_mouse_clicked = TRUE]
        /\ calls' = calls + 1
        /\ last_call' = CallAt("mouse_down", "Ok", p[1], p[2])
        /\ UNCHANGED <<worldVars, systems, issued, tick_trace, drag_system, pre_drag, gameVars,
                       pass>>

\* mouse_up_closure
MouseUp ==
    \E p \in PointerPlaces :
        /\ input_state.left_button
        /\ input_state' = update_mouse_button(update_mouse_position(input_state, p[1], p[2]), FALSE)
        /\ last_call' = CallAt("mouse_up", "Ok", p[1], p[2])
        /\ UNCHANGED <<worldVars, calls, systems, issued, tick_trace, drag_system, pre_drag,
                       gameVars, pass>>

\* mouse_move_closure
MouseMove ==
    \E p \in PointerPlaces :
        /\ p # input_state.mouse_position
        /\ input_state' = update_mouse_position(input_state, p[1], p[2])
        /\ last_call' = CallAt("mouse_move", "Ok", p[1], p[2])
        /\ UNCHANGED <<worldVars, calls, systems, issued, tick_trace, drag_system, pre_drag,
                       gameVars, pass>>

\* one frame of the game loop, World::run_systems over the registered systems:
\* DragSystem::run, which is update and then the reset of the click flag, and
\* after it GameStateSystem::run and RenderSystem::run; pre_drag keeps the board of the frame that
\* picked the entity up
Frame ==
    \E clicked \in find_clicked_entity(World, input_state.mouse_position),
       droppable_entities \in Orders(DOMAIN droppables) :
        LET d == update(drag_system, World, input_state, clicked, droppable_entities)
            picked == /\ \/ input_state.left_button /\ ~drag_system.left_button_pressed_prev
                         \/ input_state.is_mouse_clicked
                      /\ clicked # NoEntity
                      /\ has_draggable(World, clicked)
            g == game_state_system_run(game_state_system, d.w, game_state)
        IN /\ SetWorld(render_system_run(d.w))
           /\ drag_system' = d.ds
           /\ game_state_system' = g.gs
           /\ game_state' = g.state
           /\ input_state' = [input_state EXCEPT !.is_mouse_clicked = FALSE]
           /\ pre_drag' = IF picked
                          THEN [entity |-> clicked, transforms |-> transforms,
                                renderables |-> renderables, stacks |-> stacks,
                                pointer |-> input_state.mouse_position]
                          ELSE pre_drag
           /\ last_call' = Call("run_systems", "Ok")
           /\ UNCHANGED <<calls, systems, issued, tick_trace, pass>>

NextDrag == FirstMoveCardStack \/ MouseDown \/ MouseUp \/ MouseMove \/ Frame

SpecDrag == InitFree /\ [][NextDrag]_vars

----------------------------------------------------------------------------
(* SpecDrop: find_drop_target and highlight_drop_target on a board that is  *)
(* as dealt or one move_card_stack call later, where up to MaxDroppables of *)
(* the second and third column and the card dealt on top of the second      *)
(* column have been given a Droppable and a z-index of DropLayers           *)

MaxDroppables == 3

DropIds == {TableauIds[2], TableauIds[3], NumCards - 3}

DropLayers == {-1, 0, 1}

\* the cards dragged: the top cards of the third and of the second column
DraggedIds == {2, NumCards - 3}

\* positions: inside both columns' boxes, an empty place, the lower right
\* corner of the third column's box and one past it
DropPoints ==
    {<<column_x(TABLEAU_START_X, 2), TABLEAU_START_Y + 2 * STACK_OFFSET_Y>>, <<0, 0>>,
     <<column_x(TABLEAU_START_X, 2) + CARD_WIDTH, TABLEAU_START_Y + CARD_HEIGHT>>,
     <<column_x(TABLEAU_START_X, 2) + CARD_WIDTH + 1, TABLEAU_START_Y + CARD_HEIGHT>>}

CallDrop(op, ret, position, dragged_entity) ==
    [op |-> op, ret |-> ret, x |-> position[1], y |-> position[2],
     dragged_entity |-> dragged_entity]

\* world.add_component(entity_id, Droppable::new(CARD_WIDTH, CARD_HEIGHT))
AddDroppable ==
    \E entity_id \in DropIds :
        /\ Cardinality(DOMAIN droppables) < MaxDroppables
        /\ entity_id \notin DOMAIN droppables
        /\ SetWorld(add_component_droppable(World, entity_id,
                                            DroppableNew(CARD_WIDTH, CARD_HEIGHT)).w)
        /\ last_call' = CallOn("add_component", "Ok", entity_id)
        /\ UNCHANGED <<calls, schedVars>>

\* world.get_component_mut::<Transform>(entity_id) and a write of z_index
SetZIndex ==
    \E entity_id \in DropIds, z_index \in DropLayers :
        /\ has_droppable(World, entity_id)
        /\ has_transform(World, entity_id)
        /\ transforms[entity_id].z_index # z_index
        /\ SetWorld([World EXCEPT !.transforms[entity_id].z_index = z_index])
        /\ last_call' = CallOn("get_component_mut", "Ok", entity_id)
        /\ UNCHANGED <<calls, schedVars>>

FindDropTarget ==
    \E position \in DropPoints, dragged_entity \in DraggedIds,
       droppable_entities \in Orders(DOMAIN droppables) :
        /\ last_call' = CallDrop("find_drop_target",
                                 find_drop_target(World, droppable_entities, position,
                                                  dragged_entity),
                                 position, dragged_entity)
        /\ UNCHANGED <<worldVars, calls, schedVars>>

HighlightDropTarget ==
    \E position \in DropPoints, dragged_entity \in DraggedIds,
       droppable_entities \in Orders(DOMAIN droppables) :
        /\ SetWorld(highlight_drop_target([drag_system EXCEPT !.dragged_entity = dragged_entity],
                                          World, droppable_entities, position))
        /\ last_call' = CallDrop("highlight_drop_target", "Ok", position, dragged_entity)
        /\ UNCHANGED <<calls, schedVars>>

NextDrop ==
    FirstMoveCardStack \/ AddDroppable \/ SetZIndex \/ FindDropTarget \/ HighlightDropTarget

SpecDrop == InitFree /\ [][NextDrop]_vars

----------------------------------------------------------------------------
(* Reading the board *)

Cards(stack_id) == stacks[stack_id].cards

\* the places (stack, index) at which a card id is listed
Places(card_id) ==
    {<<s, i>> \in (DOMAIN stacks) \X (1..NumCards) :
        i <= Len(Cards(s)) /\ Cards(s)[i] = card_id}

FaceUp(card_id) == card_id \in DOMAIN card_infos /\ card_infos[card_id].face_up

----------------------------------------------------------------------------
(* C1 *)

\* C1: each card id occurs in at most one stack's sequence, and at most once
\* in it, after any sequence of draw_from_stock, reset_stock_from_waste,
\* move_card, move_card_stack and auto_complete calls on the dealt board.
C1_ExclusiveMembership == \A c \in CardIds : Cardinality(Places(c)) <= 1

\* a move_card call has put a card that is no Ace at the bottom of a foundation
C1_Witness ==
    /\ last_call = Call("move_card", "Ok_true")
    /\ \E k \in 1..4 :
          /\ Cards(FoundationIds[k]) # <<>>
          /\ card_infos[Cards(FoundationIds[k])[1]].rank # 0

----------------------------------------------------------------------------
(* C2 *)

\* C2: every foundation is empty or holds, bottom to top, the cards of its
\* suit with ranks 0, 1, ..., k (at most 13 cards), after any sequence of
\* draw_from_stock, reset_stock_from_waste, move_card_stack and auto_complete.
C2_FoundationOrdered ==
    \A k \in 1..4 :
        LET cards == Cards(FoundationIds[k])
        IN /\ Len(cards) <= 13
           /\ \A i \in 1..Len(cards) :
                 /\ cards[i] \in DOMAIN card_infos
                 /\ card_infos[cards[i]].suit = stacks[FoundationIds[k]].stack_type.index
                 /\ card_infos[cards[i]].rank = i - 1

\* a foundation has been built up to the 3 of its suit
C2_Witness == \E k \in 1..4 : Len(Cards(FoundationIds[k])) >= 3

----------------------------------------------------------------------------
(* C3 *)

\* C3 as stated: every non-empty tableau sequence alternates color and
\* decreases in rank from the bottom card to the top card, as from the deal.
C3_TableauOrderedAll ==
    \A t \in 1..NumCols :
        LET cards == Cards(TableauIds[t])
        IN \A i \in 1..(Len(cards) - 1) :
              /\ card_infos[cards[i]].color # card_infos[cards[i + 1]].color
              /\ card_infos[cards[i]].rank > card_infos[cards[i + 1]].rank

\* C3 (amended): in every tableau, any two adjacent cards that are both
\* face-up alternate in color and the upper one has the lower rank.
C3_FaceUpRunsOrdered ==
    \A t \in 1..NumCols :
        LET cards == Cards(TableauIds[t])
        IN \A i \in 1..(Len(cards) - 1) :
              FaceUp(cards[i]) /\ FaceUp(cards[i + 1]) =>
                  /\ card_infos[cards[i]].color # card_infos[cards[i + 1]].color
                  /\ card_infos[cards[i]].rank > card_infos[cards[i + 1]].rank

\* a tableau shows a run of three face-up cards after a move_card_stack call
C3_Witness ==
    /\ last_call = Call("move_card_stack", "Ok_true")
    /\ \E t \in 1..NumCols :
          LET cards == Cards(TableauIds[t])
          IN \E i \in 1..(Len(cards) - 2) :
                FaceUp(cards[i]) /\ FaceUp(cards[i + 1]) /\ FaceUp(cards[i + 2])

----------------------------------------------------------------------------
(* C4 *)

\* C4: every id listed in the card sequence of any StackContainer is an alive
\* entity that has a CardInfo, after any sequence of rule-engine calls,
\* World::remove_entity calls and World::update calls on the dealt board.
C4_StackCardsAliveWithCardInfo ==
    \A s \in DOMAIN stacks :
        \A i \in 1..Len(stacks[s].cards) :
            /\ stacks[s].cards[i] \in active_entities
            /\ stacks[s].cards[i] \in DOMAIN card_infos

----------------------------------------------------------------------------
(* C5 *)

\* C5: the ids returned by successful create_entity calls are strictly
\* increasing over the whole session, whatever remove_entity, update and clear
\* calls come in between; no id is issued twice.
C5_IdsStrictlyIncreasing ==
    \A i, j \in 1..Len(issued) : i < j => issued[i] < issued[j]

\* an id has been issued while every id issued before it was no longer alive
C5_Witness ==
    /\ last_call.op = "create_entity"
    /\ last_call.ret = "Ok"
    /\ Len(issued) >= 2
    /\ active_entities = {last_call.id}

----------------------------------------------------------------------------
(* C6 *)

\* C6: a create_entity call fails exactly when MAX_ENTITIES or more entities
\* are alive at the call, and a failing call changes neither the alive set,
\* nor the pending removals, nor the next id.
C6_CapacityExact ==
    [][last_call'.op = "create_entity" =>
          /\ (last_call'.ret = "Err") <=> (Cardinality(active_entities) >= MAX_ENTITIES)
          /\ last_call'.ret = "Err" => UNCHANGED worldVars
          /\ last_call'.ret = "Ok" =>
                /\ active_entities' = active_entities \cup {last_call'.id}
                /\ last_call'.id \notin active_entities]_vars

\* the 1001st creation has failed and the first 1000 ids are all alive
C6_Witness ==
    /\ last_call.op = "create_entity"
    /\ last_call.ret = "Err"
    /\ Len(issued) = MAX_ENTITIES
    /\ active_entities = 0..(MAX_ENTITIES - 1)

----------------------------------------------------------------------------
(* C7 *)

----------------------------------------------------------------------------
(* Reading the trace of a tick *)

RunEvents == {i \in 1..Len(tick_trace) : tick_trace[i].event = "run"}

UpdateEvents == {i \in 1..Len(tick_trace) : tick_trace[i].event = "update"}

\* the tick ran every system of the list once, in the order of the list, and
\* then flushed once
RanAllThenFlushed ==
    /\ \A k \in 1..Len(systems) :
          Cardinality({i \in RunEvents : tick_trace[i].system = systems[k]}) = 1
    /\ Cardinality(RunEvents) = Len(systems)
    /\ UpdateEvents = {Len(tick_trace)}

\* an entity marked when a system had run was still alive when any later one had
NoPurgeBetweenSystems ==
    \A i, j \in RunEvents :
        i <= j => tick_trace[i].entities_to_remove \subseteq tick_trace[j].active_entities

----------------------------------------------------------------------------
(* C8 *)

\* C8 as stated: every run_systems call runs every registered system exactly
\* once and then flushes exactly once, after the last system; nothing marked
\* during the tick is purged before all systems have run.
C8_EveryTickRunsAllThenFlushes ==
    last_call.op = "run_systems" => RanAllThenFlushed /\ NoPurgeBetweenSystems

\* C8 (amended): a run_systems call that returns Ok has run every registered
\* system exactly once and then flushed exactly once; a call that returns Err
\* has flushed nothing, so what was marked stays pending; in both cases
\* nothing marked during the tick is purged between two systems.
C8_OkTickRunsAllThenFlushes ==
    last_call.op = "run_systems" =>
        /\ last_call.ret = "Ok" => RanAllThenFlushed /\ entities_to_remove = {}
        /\ last_call.ret = "Err" =>
              /\ UpdateEvents = {}
              /\ entities_to_remove = tick_trace[Len(tick_trace)].entities_to_remove
        /\ NoPurgeBetweenSystems

\* a tick of MaxSystems systems has returned Ok, and entity 0, marked by one
\* of the systems, was purged by the flush
C8_Witness ==
    /\ last_call.op = "run_systems"
    /\ last_call.ret = "Ok"
    /\ Len(systems) = MaxSystems
    /\ \E i \in RunEvents : 0 \in tick_trace[i].entities_to_remove
    /\ 0 \notin active_entities

----------------------------------------------------------------------------
(* C9 *)

\* C9: in every tick the systems run in non-decreasing (phase, priority)
\* order, Input < PreUpdate < Update < PostUpdate < Render and the lower
\* priority number first, and systems equal in both run in the order in which
\* they were registered.
C9_SortedStableOrder ==
    last_call.op = "run_systems" =>
        \A i, j \in RunEvents :
            i < j =>
                LET a == tick_trace[i].system
                    b == tick_trace[j].system
                IN /\ a.phase <= b.phase
                   /\ a.phase = b.phase => a.priority <= b.priority
                   /\ (a.phase = b.phase /\ a.priority = b.priority) => a.name < b.name

\* three systems have run: two equal in phase and priority, and one that was
\* registered last but ran first
C9_Witness ==
    /\ last_call.op = "run_systems"
    /\ Cardinality(RunEvents) = 3
    /\ tick_trace[1].system.name = 3
    /\ tick_trace[2].system.phase = tick_trace[3].system.phase
    /\ tick_trace[2].system.priority = tick_trace[3].system.priority

----------------------------------------------------------------------------
(* C10 *)

\* C10: if a system returns an error in a tick, every system ordered before
\* it has run, no system ordered after it has run, no flush follows, and
\* run_systems returns the error of that system.
C10_FailFast ==
    last_call.op = "run_systems" =>
        \A k \in RunEvents :
            tick_trace[k].ret = "Err" =>
                /\ k = Len(tick_trace)
                /\ \A i \in 1..k :
                      tick_trace[i].event = "run" /\ tick_trace[i].system = systems[i]
                /\ \A i \in 1..(k - 1) : tick_trace[i].ret = "Ok"
                /\ last_call.ret = "Err"
                /\ last_call.id = tick_trace[k].system.name

\* the first of three systems has failed, and a Render system is among those
\* that did not run
C10_Witness ==
    /\ last_call.op = "run_systems"
    /\ last_call.ret = "Err"
    /\ Len(systems) = 3
    /\ Len(tick_trace) = 1
    /\ systems[3].phase = Render

----------------------------------------------------------------------------
(* C11 *)

\* C11: add_component on an id that is not alive returns Err and leaves every
\* component store as it was; get_component on an alive entity that does not
\* have the component returns None, which is no error, and changes nothing.
C11_AddOnDeadErrsGetAbsentIsNone ==
    [][/\ (last_call'.op = "add_component" /\ last_call'.id \notin active_entities) =>
              /\ last_call'.ret = "Err"
              /\ UNCHANGED worldVars
       /\ (/\ last_call'.op = "get_component"
           /\ last_call'.id \in active_entities
           /\ last_call'.id \notin DOMAIN transforms) =>
              /\ last_call'.ret = "None"
              /\ UNCHANGED worldVars]_vars

\* add_component has failed on an id that was issued and purged since
C11_Witness ==
    /\ last_call.op = "add_component"
    /\ last_call.ret = "Err"
    /\ last_call.id \in Range(issued)
    /\ last_call.id \notin active_entities
    /\ last_call.id \notin DOMAIN transforms

----------------------------------------------------------------------------
(* C12, C13: the rule as written, for the card 0 and the stack 2 *)

\* the tableau rule: a King on an empty stack, or one rank lower than the top
\* card and of the other color
TableauRule ==
    LET card == card_infos[0]
        cards == stacks[2].cards
    IN \/ cards = <<>> /\ card.rank = 12
       \/ /\ cards # <<>>
          /\ card.color # card_infos[cards[Len(cards)]].color
          /\ card.rank + 1 = card_infos[cards[Len(cards)]].rank

\* the foundation rule: the Ace of the suit on an empty stack, or the suit of
\* the foundation and one rank higher than the top card
FoundationRule ==
    LET card == card_infos[0]
        cards == stacks[2].cards
        suit == stacks[2].stack_type.index
    IN \/ cards = <<>> /\ card.rank = 0 /\ card.suit = suit
       \/ /\ cards # <<>>
          /\ card.suit = suit
          /\ card.rank = card_infos[cards[Len(cards)]].rank + 1

----------------------------------------------------------------------------
(* C12 *)

\* C12 as stated: for every card, face-down or face-up, and every tableau,
\* can_move_to_tableau is true iff the tableau rule holds.
C12_TableauRuleAnyFace ==
    (last_call.op = "can_move_to_tableau" /\ stacks[2].stack_type.kind = "Tableau") =>
        (last_call.ret <=> TableauRule)

\* C12 (amended): for every card and every tableau, can_move_to_tableau is
\* true iff the card is face-up and the tableau rule holds.
C12_TableauRuleFaceUp ==
    (last_call.op = "can_move_to_tableau" /\ stacks[2].stack_type.kind = "Tableau") =>
        (last_call.ret <=> (card_infos[0].face_up /\ TableauRule))

\* can_move_to_tableau has accepted a card on a face-down top card
C12_Witness ==
    /\ last_call = CallOn("can_move_to_tableau", TRUE, 0)
    /\ stacks[2].cards = <<1>>
    /\ ~card_infos[1].face_up

----------------------------------------------------------------------------
(* C13 *)

\* C13 as stated: for every card and every foundation, can_move_to_foundation
\* is true iff the foundation rule holds.
C13_FoundationRuleAnyFace ==
    (last_call.op = "can_move_to_foundation" /\ stacks[2].stack_type.kind = "Foundation") =>
        (last_call.ret <=> FoundationRule)

\* C13 (amended): for every card and every foundation, can_move_to_foundation
\* is true iff the card is face-up and the foundation rule holds.
C13_FoundationRuleFaceUp ==
    (last_call.op = "can_move_to_foundation" /\ stacks[2].stack_type.kind = "Foundation") =>
        (last_call.ret <=> (card_infos[0].face_up /\ FoundationRule))

\* can_move_to_foundation has accepted a card on a non-empty foundation
C13_Witness ==
    /\ last_call = CallOn("can_move_to_foundation", TRUE, 0)
    /\ stacks[2].cards = <<1>>
    /\ card_infos[0].rank > 1

----------------------------------------------------------------------------
(* Reading a move *)

Without(cards, card_id) == SelectSeq(cards, LAMBDA x : x # card_id)

IndexOf(cards, card_id) == CHOOSE i \in 1..Len(cards) : cards[i] = card_id

\* the cards of a stack from the given card up to the top
SliceFrom(cards, card_id) == SubSeq(cards, IndexOf(cards, card_id), Len(cards))

\* the card fits the stack by color and rank alone, whatever side it shows
FitsTableau(card_id, stack_id) ==
    LET cards == stacks[stack_id].cards
    IN \/ cards = <<>> /\ card_infos[card_id].rank = 12
       \/ /\ cards # <<>>
          /\ card_infos[card_id].color # card_infos[cards[Len(cards)]].color
          /\ card_infos[card_id].rank + 1 = card_infos[cards[Len(cards)]].rank

FitsFoundation(card_id, stack_id) ==
    LET cards == stacks[stack_id].cards
        suit == stacks[stack_id].stack_type.index
    IN \/ cards = <<>> /\ card_infos[card_id].rank = 0 /\ card_infos[card_id].suit = suit
       \/ /\ cards # <<>>
          /\ card_infos[card_id].suit = suit
          /\ card_infos[card_id].rank = card_infos[cards[Len(cards)]].rank + 1

\* the destinations the rules forbid: the stock and the waste, a foundation
\* for more than one card, a stack the card does not fit by color, suit or rank
Illegal(card_id, from_stack_id, to_stack_id) ==
    LET kind == stacks[to_stack_id].stack_type.kind
    IN \/ kind \in {"Stock", "Waste"}
       \/ kind = "Foundation" /\ Len(SliceFrom(stacks[from_stack_id].cards, card_id)) > 1
       \/ kind = "Foundation" /\ ~FitsFoundation(card_id, to_stack_id)
       \/ kind = "Tableau" /\ ~FitsTableau(card_id, to_stack_id)

----------------------------------------------------------------------------
(* C14 *)

\* C14: a move_card call for a card that is not in the source's sequence
\* returns Ok(false) and changes no stack, no Transform and no CardInfo.
C14_MoveCardAbsentIsNoOp ==
    [][(/\ last_call'.op = "move_card"
        /\ last_call'.card_id \notin Range(stacks[last_call'.from_stack_id].cards)) =>
           /\ last_call'.ret = "Ok_false"
           /\ UNCHANGED <<stacks, transforms, card_infos>>]_vars

\* move_card has answered Ok(false) for a card that a non-empty source lacks
C14_Witness ==
    /\ last_call.op = "move_card"
    /\ last_call.ret = "Ok_false"
    /\ stacks[last_call.from_stack_id].cards # <<>>
    /\ last_call.card_id \notin Range(stacks[last_call.from_stack_id].cards)

----------------------------------------------------------------------------
(* C15 *)

\* C15: a move_card call for a card of the source's sequence, with source and
\* destination different, returns Ok(true); the source is the old one without
\* the card, the destination the old one with the card appended as its top,
\* and every other stack is as before.
C15_MoveCardMovesOne ==
    [][(/\ last_call'.op = "move_card"
        /\ last_call'.card_id \in Range(stacks[last_call'.from_stack_id].cards)
        /\ last_call'.from_stack_id # last_call'.to_stack_id) =>
           LET c == last_call'.card_id
               f == last_call'.from_stack_id
               t == last_call'.to_stack_id
           IN /\ last_call'.ret = "Ok_true"
              /\ stacks'[f].cards = Without(stacks[f].cards, c)
              /\ stacks'[t].cards = Append(stacks[t].cards, c)
              /\ \A s \in StackIds \ {f, t} : stacks'[s] = stacks[s]]_vars

\* move_card has taken a card from under other cards to the top of a stack
\* that had cards already
C15_Witness ==
    /\ last_call.op = "move_card"
    /\ last_call.ret = "Ok_true"
    /\ last_call.from_stack_id # last_call.to_stack_id
    /\ Len(stacks[last_call.to_stack_id].cards) >= 2
    /\ stacks[last_call.to_stack_id].cards[Len(stacks[last_call.to_stack_id].cards)]
           = last_call.card_id
    /\ \E i \in 1..Len(stacks[last_call.from_stack_id].cards) :
           stacks[last_call.from_stack_id].cards[i] > last_call.card_id

----------------------------------------------------------------------------
(* C16 *)

\* C16: after a move_card or move_card_stack call that returned Ok(true) and
\* whose source is a Tableau, the source is empty or its top card is face-up,
\* and no card other than the new source top has its face-up flag changed.
C16_AutoReveal ==
    [][(/\ last_call'.op \in {"move_card", "move_card_stack"}
        /\ last_call'.ret = "Ok_true"
        /\ stacks[last_call'.from_stack_id].stack_type.kind = "Tableau") =>
           LET src == stacks'[last_call'.from_stack_id].cards
           IN /\ src = <<>> \/ card_infos'[src[Len(src)]].face_up
              /\ \A c \in CardIds :
                    (src = <<>> \/ c # src[Len(src)]) =>
                        card_infos'[c].face_up = card_infos[c].face_up]_vars

\* a move has left a tableau whose remaining cards had all been dealt
\* face-down, and the tableau now shows its top card
C16_Witness ==
    /\ last_call.op \in {"move_card", "move_card_stack"}
    /\ last_call.ret = "Ok_true"
    /\ last_call.from_stack_id # last_call.to_stack_id
    /\ stacks[last_call.from_stack_id].stack_type.kind = "Tableau"
    /\ stacks[last_call.from_stack_id].cards # <<>>
    /\ last_call.card_id \notin Range(stacks[last_call.from_stack_id].cards)
    /\ LET src == stacks[last_call.from_stack_id].cards
       IN /\ card_infos[src[Len(src)]].face_up
          /\ \A i \in 1..(Len(src) - 1) : ~card_infos[src[i]].face_up

----------------------------------------------------------------------------
(* C17 *)

\* C17: a move_card_stack call between two different tableaux, for a card of
\* the source, returns Ok(true) exactly when the first card of the slice fits
\* the destination's top card (or the empty destination); it then leaves the
\* source with the cards below the slice and the destination with its old
\* cards followed by the slice in its order.
C17_SliceMovesAsOne ==
    [][(/\ last_call'.op = "move_card_stack"
        /\ last_call'.card_id \in Range(stacks[last_call'.from_stack_id].cards)
        /\ last_call'.from_stack_id # last_call'.to_stack_id
        /\ stacks[last_call'.from_stack_id].stack_type.kind = "Tableau"
        /\ stacks[last_call'.to_stack_id].stack_type.kind = "Tableau") =>
           LET c == last_call'.card_id
               f == last_call'.from_stack_id
               t == last_call'.to_stack_id
               n == IndexOf(stacks[f].cards, c)
           IN /\ last_call'.ret = "Ok_true" <=> FitsTableau(c, t)
              /\ last_call'.ret \in {"Ok_true", "Ok_false"}
              /\ FitsTableau(c, t) =>
                    /\ stacks'[f].cards = SubSeq(stacks[f].cards, 1, n - 1)
                    /\ stacks'[t].cards = stacks[t].cards \o SliceFrom(stacks[f].cards, c)]_vars

\* move_card_stack has carried two or more cards from one tableau to another
C17_Witness ==
    /\ last_call.op = "move_card_stack"
    /\ last_call.ret = "Ok_true"
    /\ last_call.from_stack_id # last_call.to_stack_id
    /\ stacks[last_call.from_stack_id].stack_type.kind = "Tableau"
    /\ stacks[last_call.to_stack_id].stack_type.kind = "Tableau"
    /\ last_call.card_id \in Range(stacks[last_call.to_stack_id].cards)
    /\ IndexOf(stacks[last_call.to_stack_id].cards, last_call.card_id)
           < Len(stacks[last_call.to_stack_id].cards)

----------------------------------------------------------------------------
(* C18 *)

\* C18: a move_card_stack call for a card of the source and a destination the
\* rules forbid returns Ok(false), never Err, and changes no stack, no
\* Transform and no face-up flag.
C18_IllegalIsNoOp ==
    [][(/\ last_call'.op = "move_card_stack"
        /\ last_call'.card_id \in Range(stacks[last_call'.from_stack_id].cards)
        /\ Illegal(last_call'.card_id, last_call'.from_stack_id, last_call'.to_stack_id)) =>
           /\ last_call'.ret = "Ok_false"
           /\ UNCHANGED <<stacks, transforms, card_infos>>]_vars

\* move_card_stack has refused to carry a card together with the cards above
\* it to a foundation
C18_Witness ==
    /\ last_call.op = "move_card_stack"
    /\ last_call.ret = "Ok_false"
    /\ stacks[last_call.to_stack_id].stack_type.kind = "Foundation"
    /\ last_call.card_id \in Range(stacks[last_call.from_stack_id].cards)
    /\ Len(SliceFrom(stacks[last_call.from_stack_id].cards, last_call.card_id)) > 1

----------------------------------------------------------------------------
(* C19 *)

\* C19: a draw_from_stock call on a non-empty stock returns Ok(true), takes
\* exactly the stock's top card, leaves that card face-up as the new top of
\* the waste with the waste's previous card count as z-index, and changes no
\* other stack; on an empty stock the call does what reset_stock_from_waste
\* does.
C19_DrawFromStock ==
    [][last_call'.op = "draw_from_stock" =>
          IF stacks[StockId].cards # <<>>
          THEN LET top == stacks[StockId].cards[Len(stacks[StockId].cards)]
               IN /\ last_call'.ret = "Ok_true"
                  /\ stacks'[StockId].cards =
                         SubSeq(stacks[StockId].cards, 1, Len(stacks[StockId].cards) - 1)
                  /\ card_infos'[top].face_up
                  /\ stacks'[WasteId].cards = Append(stacks[WasteId].cards, top)
                  /\ transforms'[top].z_index = Len(stacks[WasteId].cards)
                  /\ \A s \in StackIds \ {StockId, WasteId} : stacks'[s] = stacks[s]
          ELSE LET r == reset_stock_from_waste(World, StockId, WasteId)
               IN /\ last_call'.ret = r.ret
                  /\ World' = r.w]_vars

----------------------------------------------------------------------------
(* C20 *)

----------------------------------------------------------------------------
(* C21 *)

\* C21: a reset_stock_from_waste call on an empty waste, and a
\* draw_from_stock call with the stock and the waste both empty, return
\* Ok(false) and leave the whole world unchanged.
C21_NothingToRecycle ==
    [][(\/ last_call'.op = "reset_stock_from_waste" /\ stacks[WasteId].cards = <<>>
        \/ /\ last_call'.op = "draw_from_stock"
           /\ stacks[StockId].cards = <<>>
           /\ stacks[WasteId].cards = <<>>) =>
           /\ last_call'.ret = "Ok_false"
           /\ UNCHANGED worldVars]_vars

\* draw_from_stock has answered Ok(false) on an empty stock and an empty waste
C21_Witness ==
    /\ last_call.op = "draw_from_stock"
    /\ last_call.ret = "Ok_false"
    /\ stacks[StockId].cards = <<>>
    /\ stacks[WasteId].cards = <<>>

----------------------------------------------------------------------------
(* C22 *)

\* C22: check_game_clear returns true exactly when every foundation of the
\* list passed holds exactly 13 cards and has a card of rank 12 on top.
C22_WinPredicate ==
    last_call.op = "check_game_clear" =>
        (last_call.ret <=>
            \A f \in Range(last_call.foundation_ids) :
                /\ Len(stacks[f].cards) = 13
                /\ card_infos[stacks[f].cards[13]].rank = 12)

\* check_game_clear has answered true for the list of all four foundations
C22_Witness ==
    /\ last_call.op = "check_game_clear"
    /\ last_call.ret
    /\ Len(last_call.foundation_ids) = 4

----------------------------------------------------------------------------
(* C23 *)

\* the sources of a pass in the order they are visited: the tableau columns,
\* then the waste
PassSources == TableauIds \o <<WasteId>>

\* the stacks after a greedy pass over sources[i..]: the top card of a source
\* goes to a foundation when can_move_to_foundation accepts it there, on the
\* stacks as the earlier sources left them
RECURSIVE GreedyPass(_, _, _)
GreedyPass(st, sources, i) ==
    IF i > Len(sources) THEN st
    ELSE LET s == sources[i]
             cards == st[s].cards
             c == cards[Len(cards)]
             accepting == {f \in Range(FoundationIds) :
                              can_move_to_foundation([World EXCEPT !.stacks = st], c, f)}
         IN IF cards = <<>> \/ accepting = {} THEN GreedyPass(st, sources, i + 1)
            ELSE LET f == CHOOSE f \in accepting : TRUE
                 IN GreedyPass([st EXCEPT ![s].cards = SubSeq(cards, 1, Len(cards) - 1),
                                          ![f].cards = Append(@, c)],
                               sources, i + 1)

FoundationCards(st) == UNION {Range(st[f].cards) : f \in Range(FoundationIds)}

\* C23: an auto_complete call leaves the stacks as one greedy pass over the
\* tableau columns and then the waste leaves them, takes at most the top card
\* of each source, returns Ok(true) exactly when a card was moved, and leaves
\* the world unchanged when it returns Ok(false).
C23_OneGreedyPass ==
    [][last_call'.op = "auto_complete" =>
          /\ \A s \in StackIds : stacks'[s].cards = GreedyPass(stacks, PassSources, 1)[s].cards
          /\ \A i \in 1..Len(PassSources) :
                LET old == stacks[PassSources[i]].cards
                    new == stacks'[PassSources[i]].cards
                IN new = old \/ (old # <<>> /\ new = SubSeq(old, 1, Len(old) - 1))
          /\ last_call'.ret \in {"Ok_true", "Ok_false"}
          /\ last_call'.ret = "Ok_true" <=> FoundationCards(stacks') # FoundationCards(stacks)
          /\ last_call'.ret = "Ok_false" => UNCHANGED worldVars]_vars

\* auto_complete has answered Ok(true) and a foundation holds cards
C23_Witness ==
    /\ last_call.op = "auto_complete"
    /\ last_call.ret = "Ok_true"
    /\ FoundationCards(stacks) # {}

----------------------------------------------------------------------------
(* C24 *)

\* C24: from any board reachable from the deal, repeated auto_complete calls
\* eventually return Ok(false); every call that returns Ok(true) strictly
\* increases the number of cards on the foundations, so at most as many
\* consecutive calls as there are cards return true.
C24_FixedPointReached ==
    /\ [][(last_call'.op = "auto_complete" /\ last_call'.ret = "Ok_true") =>
              Cardinality(FoundationCards(stacks')) > Cardinality(FoundationCards(stacks))]_vars
    /\ [](calls <= NumCards + 1)
    /\ (calls > 0) ~> LoopDone

\* the loop has ended after two or more calls that moved cards
C24_Witness ==
    /\ LoopDone
    /\ calls >= 3
    /\ FoundationCards(stacks) # {}

----------------------------------------------------------------------------
(* C25 *)

\* the cards dealt to the tableau: 1 + 2 + ... + NumCols
NumDealt == (NumCols * (NumCols + 1)) \div 2

RECURSIVE Concat(_, _)
Concat(ids, i) == IF i > Len(ids) THEN <<>> ELSE stacks[ids[i]].cards \o Concat(ids, i + 1)

\* C25: right after setup_solitaire_board there is exactly one card entity
\* per suit/rank pair of the deck; tableau column i holds i + 1 cards of which
\* exactly the top one is face-up; the stock holds the remaining cards, all
\* face-down; the waste and the foundations are empty; no card is in two
\* stacks.
C25_InitialDeal ==
    last_call.op = "setup_solitaire_board" =>
        LET listed == Concat(<<StockId, WasteId>> \o TableauIds \o FoundationIds, 1)
        IN /\ last_call.ret = "Ok"
           /\ Cardinality(DOMAIN card_infos) = NumCards
           /\ \A suit \in DeckSuits, rank \in DeckRanks :
                 Cardinality({c \in DOMAIN card_infos :
                     card_infos[c].suit = suit /\ card_infos[c].rank = rank}) = 1
           /\ \A i \in 1..NumCols :
                 LET cards == stacks[TableauIds[i]].cards
                 IN /\ Len(cards) = i
                    /\ \A j \in 1..i : card_infos[cards[j]].face_up <=> j = i
           /\ Len(stacks[StockId].cards) = NumCards - NumDealt
           /\ \A c \in Range(stacks[StockId].cards) : ~card_infos[c].face_up
           /\ stacks[WasteId].cards = <<>>
           /\ \A i \in 1..4 : stacks[FoundationIds[i]].cards = <<>>
           /\ \A i, j \in 1..Len(listed) : listed[i] = listed[j] => i = j
           /\ Range(listed) = DOMAIN card_infos

\* the board has just been dealt and the last column holds NumCols cards
C25_Witness ==
    /\ last_call.op = "setup_solitaire_board"
    /\ Len(stacks[TableauIds[NumCols]].cards) = NumCols
    /\ stacks[StockId].cards # <<>>

----------------------------------------------------------------------------
(* C30 *)

\* the alive entities with Transform and Renderable that are visible and
\* whose box holds the point, borders included
Under(x, y) ==
    {e \in active_entities :
        /\ e \in DOMAIN transforms
        /\ e \in DOMAIN renderables
        /\ renderables[e].visible
        /\ transforms[e].x <= x /\ x <= transforms[e].x + renderables[e].width
        /\ transforms[e].y <= y /\ y <= transforms[e].y + renderables[e].height}

\* C30: get_entity_at_position(x, y) returns None exactly when no alive,
\* visible entity with Transform and Renderable has the point in its box;
\* otherwise it returns one of these entities, of the greatest z-index
\* among them.
C30_TopmostUnderPoint ==
    last_call.op = "get_entity_at_position" =>
        LET under == Under(last_call.x, last_call.y)
        IN /\ last_call.ret = NoEntity <=> under = {}
           /\ last_call.ret # NoEntity =>
                 /\ last_call.ret \in under
                 /\ \A e \in under : transforms[e].z_index <= transforms[last_call.ret].z_index

\* an entity was returned from under a point on the border of two boxes of
\* different z-index
C30_Witness ==
    /\ last_call.op = "get_entity_at_position"
    /\ last_call.ret # NoEntity
    /\ last_call.x = BoxSide
    /\ \E e \in Under(last_call.x, last_call.y) :
          transforms[e].z_index < transforms[last_call.ret].z_index

----------------------------------------------------------------------------
(* Reading a drag *)

\* the stack that lists the card
SourceOf(card_id) == CHOOSE s \in DOMAIN stacks : card_id \in Range(stacks[s].cards)

\* the stacks whose area on the table holds the point: a card's width across,
\* and down to the lower edge of the last card of the pile
StacksUnder(p) ==
    {s \in DOMAIN stacks :
        /\ s \in DOMAIN transforms
        /\ LET spread == IF stacks[s].stack_type.kind = "Tableau" /\ stacks[s].cards # <<>>
                         THEN (Len(stacks[s].cards) - 1) * STACK_OFFSET_Y
                         ELSE 0
           IN /\ p[1] >= transforms[s].x /\ p[1] <= transforms[s].x + CARD_WIDTH
              /\ p[2] >= transforms[s].y /\ p[2] <= transforms[s].y + spread + CARD_HEIGHT}

\* the stacks under the pointer, other than the card's own, that the rules
\* let the card and the cards above it move to
Accepting(card_id) ==
    {s \in StacksUnder(input_state.mouse_position) :
        s # SourceOf(card_id) /\ ~Illegal(card_id, SourceOf(card_id), s)}

\* the step is the frame that processes the release of the dragged card
ReleaseFrame(card_id) ==
    /\ last_call'.op = "run_systems"
    /\ ~input_state.left_button /\ ~input_state.is_mouse_clicked
    /\ drag_system.left_button_pressed_prev
    /\ drag_system.dragged_entity = card_id
    /\ pre_drag.entity = card_id

\* the run is the end of the stack's sequence
EndsWith(cards, run) ==
    Len(cards) >= Len(run) /\ SubSeq(cards, Len(cards) - Len(run) + 1, Len(cards)) = run

----------------------------------------------------------------------------
(* C26 *)

\* C26: when a card that the drag system picked up is released over no stack
\* that accepts it, then after the frame that processes the release the card's
\* position and z-index are what they were just before the press, and its
\* opacity is 1.0.
C26_DragRevert ==
    [][\A c \in CardIds :
           ReleaseFrame(c) /\ Accepting(c) = {} =>
               /\ transforms'[c].x = pre_drag.transforms[c].x
               /\ transforms'[c].y = pre_drag.transforms[c].y
               /\ transforms'[c].z_index = pre_drag.transforms[c].z_index
               /\ renderables'[c].opacity = 10]_vars

----------------------------------------------------------------------------
(* C27 *)

\* C27: when a dragged top card is released over a stack that legally accepts
\* it, then after the frame that processes the release the card is the top of
\* that stack's sequence and is in no other stack's sequence.
C27_DragCommit ==
    [][\A c \in CardIds :
           /\ ReleaseFrame(c)
           /\ Len(SliceFrom(stacks[SourceOf(c)].cards, c)) = 1
           /\ Accepting(c) # {}
           => \E s \in Accepting(c) :
                  /\ EndsWith(stacks'[s].cards, <<c>>)
                  /\ \A t \in DOMAIN stacks : t # s => c \notin Range(stacks'[t].cards)]_vars

----------------------------------------------------------------------------
(* C28 *)

\* C28: when the drag of a card with cards above it in a tableau ends, either
\* the whole run is at the end of another stack in its order, or the whole run
\* is still at the end of its source and every card of it has the position
\* and z-index it had before the drag, opacity 1.0 and is_dragging false.
C28_GroupAllOrNothing ==
    [][\A c \in CardIds :
           ReleaseFrame(c) =>
               LET source == SourceOf(c)
                   run == SliceFrom(pre_drag.stacks[source].cards, c)
               IN stacks[source].stack_type.kind = "Tableau" /\ Len(run) >= 2 =>
                      \/ \E t \in DOMAIN stacks :
                             /\ t # source
                             /\ EndsWith(stacks'[t].cards, run)
                             /\ \A i \in 1..Len(run) : run[i] \notin Range(stacks'[source].cards)
                      \/ /\ EndsWith(stacks'[source].cards, run)
                         /\ \A i \in 1..Len(run) :
                                /\ transforms'[run[i]] = pre_drag.transforms[run[i]]
                                /\ renderables'[run[i]].opacity = 10
                                /\ run[i] \in DOMAIN draggables' =>
                                       ~draggables'[run[i]].is_dragging]_vars

----------------------------------------------------------------------------
(* C29 *)

\* C29: whenever a frame has run with the left button up, whatever presses,
\* moves and releases came before it and between which frames, the drag
\* system holds no dragged entity and no entity is left with is_dragging
\* true, an opacity under 1.0 or the z-index of a dragged entity.
C29_DragReturnsToIdle ==
    last_call.op = "run_systems" /\ ~input_state.left_button =>
        /\ drag_system.dragged_entity = NoEntity
        /\ \A e \in DOMAIN draggables : ~draggables[e].is_dragging
        /\ \A e \in DOMAIN renderables : renderables[e].opacity = 10
        /\ \A e \in DOMAIN transforms : transforms[e].z_index # DragZIndex

----------------------------------------------------------------------------
(* C31 *)

\* C31: from the dealt board, under draw_from_stock, reset_stock_from_waste,
\* move_card_stack and auto_complete, every slice that move_card_stack moves
\* from one tableau to another holds only face-up cards, each of the other
\* color than the card under it in the slice and one rank lower.
C31_MovedRunsWellOrdered ==
    [][(/\ last_call'.op = "move_card_stack"
        /\ last_call'.ret = "Ok_true"
        /\ stacks[last_call'.from_stack_id].stack_type.kind = "Tableau"
        /\ stacks[last_call'.to_stack_id].stack_type.kind = "Tableau") =>
           LET run == SliceFrom(stacks[last_call'.from_stack_id].cards, last_call'.card_id)
           IN /\ \A i \in 1..Len(run) : FaceUp(run[i])
              /\ \A i \in 1..(Len(run) - 1) :
                     /\ card_infos[run[i]].color # card_infos[run[i + 1]].color
                     /\ card_infos[run[i]].rank = card_infos[run[i + 1]].rank + 1]_vars

----------------------------------------------------------------------------
(* C32 *)

\* C32: after a move_card or move_card_stack call that returned Ok(true), each
\* moved card's Transform has the x of the destination stack's Transform and
\* as z-index the card's index (from 0) in the destination's sequence; its y
\* is the destination's y plus STACK_OFFSET_Y times that index when the
\* destination is a Tableau, and the destination's y otherwise.
C32_PlacementFormula ==
    [][(/\ last_call'.op \in {"move_card", "move_card_stack"}
        /\ last_call'.ret = "Ok_true"
        /\ last_call'.from_stack_id # last_call'.to_stack_id) =>
           LET t == last_call'.to_stack_id
               moved == IF last_call'.op = "move_card" THEN <<last_call'.card_id>>
                        ELSE SliceFrom(stacks[last_call'.from_stack_id].cards, last_call'.card_id)
           IN \A i \in 1..Len(moved) :
                  LET index == IndexOf(stacks'[t].cards, moved[i]) - 1
                  IN /\ transforms'[moved[i]].x = transforms'[t].x
                     /\ transforms'[moved[i]].z_index = index
                     /\ transforms'[moved[i]].y =
                            IF stacks'[t].stack_type.kind = "Tableau"
                            THEN transforms'[t].y + STACK_OFFSET_Y * index
                            ELSE transforms'[t].y]_vars

----------------------------------------------------------------------------
(* C33 *)

\* C33: at the end of every frame in which the left button is held and an
\* entity is picked, the picked entity's position is the pointer's position
\* minus the offset the pointer had from the entity when it was picked up.
C33_DragFollowsPointer ==
    (/\ last_call.op = "run_systems"
     /\ input_state.left_button
     /\ drag_system.dragged_entity # NoEntity
     /\ pre_drag.entity = drag_system.dragged_entity) =>
        LET e == drag_system.dragged_entity
            drag_offset == <<pre_drag.pointer[1] - pre_drag.transforms[e].x,
                             pre_drag.pointer[2] - pre_drag.transforms[e].y>>
        IN /\ transforms[e].x = input_state.mouse_position[1] - drag_offset[1]
           /\ transforms[e].y = input_state.mouse_position[2] - drag_offset[2]

----------------------------------------------------------------------------
(* C34 *)

\* the dragged card and the cards above it in its stack
DraggedGroup(card_id) ==
    IF \E s \in DOMAIN stacks : card_id \in Range(stacks[s].cards)
    THEN Range(SliceFrom(stacks[SourceOf(card_id)].cards, card_id))
    ELSE {card_id}

\* the entities outside the group that have a Droppable and a Transform and
\* whose box holds the point
DropCandidates(group, p) ==
    {e \in DOMAIN droppables \ group :
        /\ e \in active_entities /\ e \in DOMAIN transforms
        /\ p[1] >= transforms[e].x /\ p[1] <= transforms[e].x + droppables[e].width
        /\ p[2] >= transforms[e].y /\ p[2] <= transforms[e].y + droppables[e].height}

\* no other candidate has the group's box over the point above this one
DropTargetFound ==
    LET candidates == DropCandidates(DraggedGroup(last_call'.dragged_entity),
                                     <<last_call'.x, last_call'.y>>)
    IN /\ last_call'.ret = NoEntity <=> candidates = {}
       /\ last_call'.ret # NoEntity =>
              /\ last_call'.ret \in candidates
              /\ \A e \in candidates :
                     transforms[e].z_index <= transforms[last_call'.ret].z_index

\* every highlighted target is a stack whose rule accepts the lead card
DropTargetValid ==
    \A t \in DOMAIN droppables' :
        droppables'[t].is_active =>
            /\ t \in DOMAIN stacks
            /\ ~Illegal(last_call'.dragged_entity, SourceOf(last_call'.dragged_entity), t)

\* C34: find_drop_target returns None exactly when no entity with Droppable
\* and Transform outside the dragged group has its box over the position, and
\* otherwise such an entity of the highest z-index, whatever the z-indices
\* are; and highlight_drop_target leaves is_active true only on a target whose
\* stack rule accepts the lead card.
C34_DropTargetResolution ==
    [][/\ last_call'.op = "find_drop_target" => DropTargetFound
       /\ last_call'.op = "highlight_drop_target" => DropTargetValid]_vars

----------------------------------------------------------------------------
(* C35 *)

\* the sequences of all stacks of the board, one after the other
AllCards == Concat(<<StockId, WasteId>> \o TableauIds \o FoundationIds, 1)

\* C35: after any sequence of draw_from_stock, reset_stock_from_waste,
\* move_card, move_card_stack and auto_complete calls on the dealt board, all
\* of which return Ok, the sequences of all stacks together list every dealt
\* card exactly once and nothing else.
C35_CardConservation ==
    /\ last_call.ret \in {"Ok", "Ok_true", "Ok_false"}
    /\ Len(AllCards) = NumCards
    /\ \A c \in CardIds : Cardinality({i \in 1..Len(AllCards) : AllCards[i] = c}) = 1

\* a move_card_stack call has made a column longer than any column of the
\* deal, after cards have left the stock
C35_Witness ==
    /\ last_call = Call("move_card_stack", "Ok_true")
    /\ \E k \in 1..NumCols : Len(Cards(TableauIds[k])) > NumCols
    /\ Len(Cards(StockId)) < NumCards - NumDealt

----------------------------------------------------------------------------
(* C36 *)

\* C36: a move_card or move_card_stack call that returns Err leaves the card
\* sequence of every stack as it was before the call.
C36_MoveErrAtomic ==
    [][last_call'.op \in {"move_card", "move_card_stack"} /\ last_call'.ret = "Err" =>
           stacks' = stacks]_vars

----------------------------------------------------------------------------
(* C37 *)

\* C37: a run_systems call in which a system returns an error flushes
\* nothing: no entity leaves the set of alive entities, so the number of
\* entities counted against MAX_ENTITIES stays the same, and every entity
\* that was marked before or during the call is still marked and alive after
\* it; the marked entities go with the next call that returns Ok.
C37_FailedTickKeepsMarked ==
    [][last_call'.op = "run_systems" =>
           /\ last_call'.ret = "Err" =>
                 /\ active_entities' = active_entities
                 /\ entity_count(World)' = entity_count(World)
                 /\ entities_to_remove \subseteq entities_to_remove'
                 /\ \A k \in 1..Len(tick_trace') :
                        tick_trace'[k].entities_to_remove \subseteq entities_to_remove'
                 /\ \A e \in entities_to_remove' : entity_exists(World, e)'
           /\ last_call'.ret = "Ok" =>
                 /\ entities_to_remove' = {}
                 /\ \A e \in entities_to_remove : ~entity_exists(World, e)']_vars

\* a system has marked entity 0 and a later system of the same tick has
\* failed: the entity is marked and alive
C37_Witness ==
    /\ last_call.op = "run_systems"
    /\ last_call.ret = "Err"
    /\ Len(tick_trace) > 1
    /\ 0 \in entities_to_remove
    /\ entity_exists(World, 0)

----------------------------------------------------------------------------
(* C38 *)

\* what get_entities_with_component yields for any kind of component: the
\* keys of the storages
EntitiesWithComponent ==
    DOMAIN transforms \cup DOMAIN card_infos \cup DOMAIN renderables \cup DOMAIN draggables
    \cup DOMAIN clickables \cup DOMAIN droppables \cup DOMAIN stacks

\* C38: right after every World::update, whatever create_entity,
\* add_component, remove_component, remove_entity and update calls came
\* before, every entity that get_entities_with_component yields is alive.
C38_NoComponentsOfDeadEntities ==
    last_call.op = "update" => \A e \in EntitiesWithComponent : entity_exists(World, e)

----------------------------------------------------------------------------
(* C39 *)

\* every foundation of the board holds 13 cards with a King on top
AllFoundationsComplete ==
    \A f \in DOMAIN stacks :
        stacks[f].stack_type.kind = "Foundation" =>
            /\ Len(stacks[f].cards) = 13
            /\ card_infos[top_card(stacks[f].cards)].rank = 12

\* C39: a tick of the GameStateSystem changes the GameState exactly when the
\* state is Playing and every foundation holds 13 cards topped by a King, and
\* then to Clear; in Title, Paused, GameOver and Clear the tick leaves the
\* state as it is.
C39_WinTransition ==
    [][last_call'.op = "game_state_system_run" =>
           /\ game_state' # game_state <=> (game_state = "Playing" /\ AllFoundationsComplete)
           /\ game_state' # game_state => game_state' = "Clear"
           /\ game_state \in GameStates \ {"Playing"} => game_state' = game_state]_vars

\* the game was cleared by a tick after MaxShifts move_card calls had taken a
\* top card off a foundation and brought one back
C39_Witness ==
    /\ last_call.op = "game_state_system_run"
    /\ game_state = "Clear"
    /\ calls = MaxShifts
    /\ AllFoundationsComplete

----------------------------------------------------------------------------
(* C40 *)

Reverse(s) == [i \in 1..Len(s) |-> s[Len(s) + 1 - i]]

====
